---- MODULE Spec2Model ----
(***************************************************************************)
(* A model of fl::string (include/fl/string.hpp), its allocation layer     *)
(* (include/fl/alloc_hooks.hpp) and its substring search.                  *)
(*                                                                         *)
(* Bytes are naturals 0..255.  Sequences are 1-based in TLA+, the code is  *)
(* 0-based: byte i of the code is element i+1 of the sequence.  size_t     *)
(* npos and a null pointer returned by a search are written NPOS.          *)
(***************************************************************************)
EXTENDS Integers, Sequences, FiniteSets, TLC

VARIABLES
    \* ---- substring search (string::find, detail::two_way::search) ----
    hay,        \* the searched bytes, as a descriptor (see HayByte)
    needle,     \* the needle, a sequence of bytes
    startPos,   \* the start_pos argument of find
    entry,      \* which function was called: "find" or "search"
    fpc,        \* position inside the call
    tw,         \* locals of two_way::search
    found,      \* the value returned
    \* ---- storage engine (fl::string objects and the allocation layer) ----
    strs,       \* the string objects: size, flags, the union of sso / heap fields
    blocks,     \* the memory blocks the allocation layer has handed out
    pool,       \* per thread, per size class: the stack of recycled blocks
    hooks,      \* the installed allocation hooks
    fault,      \* "none", or the undefined behaviour the program ran into
    res,        \* what the last operation reported to its caller
    ref,        \* reference model: the byte sequence each string should hold
    nops,       \* operations done so far
    env         \* the environment: whether the platform allocator may fail

findVars == <<hay, needle, startPos, entry, fpc, tw, found>>
strVars == <<strs, blocks, pool, hooks, fault, res, ref, nops, env>>
vars == <<findVars, strVars>>

\* ------------------------------------------------------------------------
\* Program constants
\* ------------------------------------------------------------------------
kTwoWayHaystackThreshold == 65536
ShortNeedleMax == 8
NPOS == -1

\* The two bytes the search inputs are written in: 'a' and 'b'.
Alphabet == <<97, 98>>
A == Alphabet[1]
B == Alphabet[2]

\* ------------------------------------------------------------------------
\* Bounds of the search inputs
\* ------------------------------------------------------------------------
MaxSmallHay == 4      \* find: every haystack over {a,b} up to this length
MaxSmallNeedle == 2   \* find: every needle over {a,b} up to this length
MaxPad == 2           \* two_way::search: haystack length is m .. m + MaxPad + ...
MaxRun == 9           \* needles a^k b with 8 <= k <= MaxRun

Max(a, b) == IF a >= b THEN a ELSE b
Min(a, b) == IF a <= b THEN a ELSE b

\* ========================================================================
\* ALLOCATION LAYER (include/fl/alloc_hooks.hpp)
\* ========================================================================
\* A byte of memory nobody has written since the block was obtained.
JUNK == 0 - 1

\* count bytes ch; `old` extended to n bytes; `old` with `bytes` stored at off
Fill(count, ch) == SubSeq([i \in 1..count |-> ch], 1, count)
Pad(old, n) == IF Len(old) >= n THEN old ELSE old \o Fill(n - Len(old), JUNK)
Overlay(old, off, bytes) ==
    SubSeq(old, 1, off) \o SubSeq(bytes, 1, Len(bytes))
        \o SubSeq(old, off + Len(bytes) + 1, Len(old))

POOL_CLASSES == <<64, 128, 256, 512, 1024, 2048, 4096>>
POOL_SLAB_DEPTH == 8
NULL == 0

MainThread == 1
Threads == {MainThread, MainThread + 1}

\* Bounds of the storage model
MaxBlocks == 4        \* blocks the platform allocator can have handed out at once
MaxOps == 2           \* operations in one run, after the first constructor

BlockIds == 1..MaxBlocks

\* pool_class_index: index into POOL_CLASSES (1-based here), or -1 if too large
RECURSIVE pool_class_index_from(_, _)
pool_class_index_from(n, i) ==
    IF i > Len(POOL_CLASSES) THEN 0 - 1
    ELSE IF n <= POOL_CLASSES[i] THEN i
    ELSE pool_class_index_from(n, i + 1)

pool_class_index(n) == pool_class_index_from(n, 1)

pool_alloc_usable_capacity(raw_size) ==
    LET idx == pool_class_index(raw_size)
    IN  IF idx >= 1 THEN POOL_CLASSES[idx] - 1 ELSE raw_size - 1

\* A block: st is "none" (never handed out), "held" (owned by the caller that
\* obtained it), "pooled" (parked in a thread's recycler table) or "freed"
\* (given back to the platform or to the user's deallocate hook).
\* by / req: the path that produced it and the byte count asked of that path;
\* relBy / relN: the path it was last released through and the byte count
\* passed; len: the size really obtained; bytes: its memory up to the last
\* byte written since it was obtained from the platform (the rest is JUNK).
NoBlock == [st |-> "none", bytes |-> <<>>, len |-> 0, by |-> "none", req |-> 0,
            relBy |-> "none", relN |-> 0]

Fault(m, what) == IF m.fault = "none" THEN [m EXCEPT !.fault = what] ELSE m

\* The platform allocator (malloc / free).  m.ok says whether this call of
\* malloc succeeds; m.p is the pointer returned to the caller.
FreshBlock(m) ==
    IF \E b \in DOMAIN m.blocks : m.blocks[b].st \in {"none", "freed"}
    THEN CHOOSE b \in DOMAIN m.blocks :
            /\ m.blocks[b].st \in {"none", "freed"}
            /\ \A c \in DOMAIN m.blocks : m.blocks[c].st \in {"none", "freed"} => b <= c
    ELSE NULL

allocate_aligned_unpooled(m, n, by, req) ==
    IF n = 0 THEN [m EXCEPT !.p = NULL]
    ELSE IF ~m.ok THEN [m EXCEPT !.p = NULL, !.oom = TRUE]
    ELSE LET b == FreshBlock(m)
         IN  IF b = NULL THEN [Fault(m, "model_out_of_blocks") EXCEPT !.p = NULL]
             ELSE [m EXCEPT !.p = b,
                            !.blocks[b] = [st |-> "held", bytes |-> <<>>, len |-> n,
                                           by |-> by, req |-> req,
                                           relBy |-> "none", relN |-> 0]]

\* Hands block p over to `via` with byte count n; a block that is not held
\* at that moment is being released a second time.
Release(m, p, n, via, to) ==
    IF m.blocks[p].st # "held" THEN Fault(m, "double_release")
    ELSE [m EXCEPT !.blocks[p].st = to, !.blocks[p].relBy = via, !.blocks[p].relN = n]

deallocate_aligned_unpooled(m, p, n, via) ==
    IF p = NULL THEN m ELSE Release(m, p, n, via, "freed")

\* Defect variant of default_allocate_aligned: a hit returns the block
\* parked longest instead of the one parked last.
default_allocate_aligned_fifo(m, n) ==
    IF n = 0 THEN [m EXCEPT !.p = NULL]
    ELSE LET idx == pool_class_index(n)
         IN  IF idx < 0 THEN allocate_aligned_unpooled(m, n, "recycler", n)
             ELSE LET stack == m.pool[m.t][idx]
                  IN  IF Len(stack) > 0 THEN
                          LET b == stack[1]
                          IN  [m EXCEPT !.p = b,
                                        !.pool[m.t][idx] = SubSeq(stack, 2, Len(stack)),
                                        !.blocks[b].st = "held",
                                        !.blocks[b].by = "recycler",
                                        !.blocks[b].req = n]
                      ELSE allocate_aligned_unpooled(m, POOL_CLASSES[idx], "recycler", n)

default_allocate_aligned(m, n) ==
    IF n = 0 THEN [m EXCEPT !.p = NULL]
    ELSE LET idx == pool_class_index(n)
         IN  IF idx < 0 THEN allocate_aligned_unpooled(m, n, "recycler", n)
             ELSE LET stack == m.pool[m.t][idx]
                  IN  IF Len(stack) > 0 THEN
                          LET b == stack[Len(stack)]
                          IN  [m EXCEPT !.p = b,
                                        !.pool[m.t][idx] = SubSeq(stack, 1, Len(stack) - 1),
                                        !.blocks[b].st = "held",
                                        !.blocks[b].by = "recycler",
                                        !.blocks[b].req = n]
                      ELSE allocate_aligned_unpooled(m, POOL_CLASSES[idx], "recycler", n)

\* Defect variant of default_deallocate_aligned: every thread parks blocks
\* in the table of the main thread.
default_deallocate_aligned_shared(m, p, n) ==
    IF p = NULL THEN m
    ELSE LET idx == pool_class_index(n)
         IN  IF idx < 0 THEN deallocate_aligned_unpooled(m, p, n, "recycler")
             ELSE IF Len(m.pool[MainThread][idx]) < POOL_SLAB_DEPTH THEN
                  LET r == Release(m, p, n, "recycler", "pooled")
                  IN  IF r.fault # m.fault THEN r
                      ELSE [r EXCEPT !.pool[MainThread][idx] = Append(m.pool[MainThread][idx], p)]
             ELSE deallocate_aligned_unpooled(m, p, n, "recycler")

default_deallocate_aligned(m, p, n) ==
    IF p = NULL THEN m
    ELSE LET idx == pool_class_index(n)
         IN  IF idx < 0 THEN deallocate_aligned_unpooled(m, p, n, "recycler")
             ELSE IF Len(m.pool[m.t][idx]) < POOL_SLAB_DEPTH THEN
                  LET r == Release(m, p, n, "recycler", "pooled")
                  IN  IF r.fault # m.fault THEN r
                      ELSE [r EXCEPT !.pool[m.t][idx] = Append(m.pool[m.t][idx], p)]
             ELSE deallocate_aligned_unpooled(m, p, n, "recycler")

\* The user's hooks.  A user allocator hands out a block of exactly the bytes
\* it was asked for; "user_aligned" is the aligned pair (aa, da), "user" the
\* plain pair (a, d) reached through the forwarding lambdas of set_hooks.
user_allocate(m, n, which) == allocate_aligned_unpooled(m, n, which, n)
user_deallocate(m, p, n, which) ==
    IF p = NULL THEN m ELSE Release(m, p, n, which, "freed")

NoHooks == [customised |-> FALSE, aa |-> "default", da |-> "default"]

\* set_hooks(a, d, aa, da): each argument is null (FALSE) or a user function
set_hooks(a, d, aa, da) ==
    [customised |-> (a \/ d \/ aa \/ da),
     aa |-> IF aa THEN "user_aligned" ELSE IF a THEN "user" ELSE "default",
     da |-> IF da THEN "user_aligned" ELSE IF d THEN "user" ELSE "default"]

hooks_active(m) == m.hooks.customised

allocate_bytes_aligned(m, n) ==
    IF m.fault # "none" THEN [m EXCEPT !.p = NULL]
    ELSE IF ~hooks_active(m) THEN default_allocate_aligned(m, n)
    ELSE IF m.hooks.aa = "default" THEN default_allocate_aligned(m, n)
    ELSE user_allocate(m, n, m.hooks.aa)

deallocate_bytes_aligned(m, p, n) ==
    IF m.fault # "none" THEN m
    ELSE IF p # NULL /\ p \notin BlockIds THEN Fault(m, "wild_free")
    ELSE IF ~hooks_active(m) THEN default_deallocate_aligned(m, p, n)
    ELSE IF m.hooks.da = "default" THEN default_deallocate_aligned(m, p, n)
    ELSE user_deallocate(m, p, n, m.hooks.da)

\* ---- memory access ----
\* Writing `bytes` at offset off of block p.
mem_write(m, p, off, bytes) ==
    IF m.fault # "none" \/ Len(bytes) = 0 THEN m
    ELSE IF p = NULL THEN Fault(m, "null_write")
    ELSE IF p \notin BlockIds THEN Fault(m, "wild_write")
    ELSE IF m.blocks[p].st \in {"none", "freed"} THEN Fault(m, "write_after_free")
    ELSE IF off + Len(bytes) > m.blocks[p].len THEN Fault(m, "heap_overflow")
    ELSE [m EXCEPT !.blocks[p].bytes = Overlay(Pad(@, off + Len(bytes)), off, bytes)]

\* The len bytes at offset off of block p (JUNK where p cannot be read).
mem_read(m, p, off, len) ==
    IF p \in BlockIds
    THEN LET have == Max(0, Min(len, m.blocks[p].len - off))
         IN  SubSeq(Pad(m.blocks[p].bytes, off + have), off + 1, off + have)
                \o Fill(len - have, JUNK)
    ELSE Fill(len, JUNK)

\* The fault, if any, of reading len bytes at offset off of block p.
mem_read_check(m, p, off, len) ==
    IF m.fault # "none" \/ len = 0 THEN m
    ELSE IF p = NULL THEN Fault(m, "null_read")
    ELSE IF p \notin BlockIds THEN Fault(m, "wild_read")
    ELSE IF m.blocks[p].st \in {"none", "freed"} THEN Fault(m, "read_after_free")
    ELSE IF off + len > m.blocks[p].len THEN Fault(m, "heap_overread")
    ELSE m

\* ========================================================================
\* STRING STORAGE ENGINE (include/fl/string.hpp, class string)
\* ========================================================================
SSO_CAPACITY == 23
SSO_THRESHOLD == SSO_CAPACITY + 1
HEAP_ALLOCATED_FLAG == 1
MinHeapCapacity == 32

StrIds == {1, 2}

\* What an indeterminate pointer field reads as.
WILD == 0 - 2

fits_in_sso(n) == n < SSO_THRESHOLD

\* A string object.  sso, and ptr / cap, are the two members of the union
\* StorageData: ptr occupies bytes 0..7 of sso and cap bytes 8..15, so a write
\* to one member leaves the bytes of the other indeterminate.
PtrBytes == 8
Dead == [alive |-> FALSE, size |-> 0, flags |-> 0,
         sso |-> Fill(SSO_CAPACITY + 1, JUNK), ptr |-> WILD, cap |-> JUNK]

\* flags | bit, for a one-bit mask
or_flag(flags, bit) == IF (flags \div bit) % 2 = 1 THEN flags ELSE flags + bit

is_heap_allocated(s) == (s.flags % 2) = HEAP_ALLOCATED_FLAG

capacity(s) == IF is_heap_allocated(s) THEN s.cap ELSE SSO_CAPACITY

Str(m, sid) == m.strs[sid]

SetStr(m, sid, s) == IF m.fault # "none" THEN m ELSE [m EXCEPT !.strs[sid] = s]

\* _data.heap.ptr = p
set_heap_ptr(s, p) ==
    [s EXCEPT !.ptr = p, !.sso = Overlay(@, 0, Fill(PtrBytes, JUNK))]

\* _data.heap.capacity = c
set_heap_capacity(s, c) ==
    [s EXCEPT !.cap = c, !.sso = Overlay(@, PtrBytes, Fill(PtrBytes, JUNK))]

\* Bytes written into _data.sso at offset off.
sso_store(s, off, bytes) ==
    [s EXCEPT !.sso = Overlay(@, off, bytes),
              !.ptr = IF Len(bytes) > 0 /\ off < PtrBytes THEN WILD ELSE @,
              !.cap = IF Len(bytes) > 0 /\ off < 2 * PtrBytes /\ off + Len(bytes) > PtrBytes
                      THEN JUNK ELSE @]

\* ---- statements on one string object ----
set_size(m, sid, n) == SetStr(m, sid, [Str(m, sid) EXCEPT !.size = n])
set_flags(m, sid, f) == SetStr(m, sid, [Str(m, sid) EXCEPT !.flags = f])
or_flags(m, sid, bit) == SetStr(m, sid, [Str(m, sid) EXCEPT !.flags = or_flag(@, bit)])
set_ptr(m, sid, p) == SetStr(m, sid, set_heap_ptr(Str(m, sid), p))
set_capacity(m, sid, c) == SetStr(m, sid, set_heap_capacity(Str(m, sid), c))

\* _data.heap.ptr = <the pointer the allocation just made returned>
set_ptr_new(m, sid) == set_ptr(m, sid, m.p)

\* _data.sso[off ..] = bytes
sso_write(m, sid, off, bytes) ==
    IF m.fault # "none" \/ Len(bytes) = 0 THEN m
    ELSE IF off + Len(bytes) > SSO_CAPACITY + 1 THEN Fault(m, "sso_overflow")
    ELSE SetStr(m, sid, sso_store(Str(m, sid), off, bytes))

\* _data.heap.ptr[off ..] = bytes
heap_write(m, sid, off, bytes) == mem_write(m, Str(m, sid).ptr, off, bytes)

\* new_ptr[off ..] = bytes
new_write(m, off, bytes) == mem_write(m, m.p, off, bytes)

\* Writing through _data_ptr_mutable() / _mutable_storage().data()
data_write(m, sid, off, bytes) ==
    IF is_heap_allocated(Str(m, sid)) THEN heap_write(m, sid, off, bytes)
    ELSE sso_write(m, sid, off, bytes)

\* The len bytes _data.sso[off ..]
sso_read(s, off, len) ==
    LET have == Max(0, Min(len, SSO_CAPACITY + 1 - off))
    IN  SubSeq(s.sso, off + 1, off + have) \o Fill(len - have, JUNK)

\* Reading through _data_ptr()
data_read(m, sid, off, len) ==
    IF is_heap_allocated(Str(m, sid)) THEN mem_read(m, Str(m, sid).ptr, off, len)
    ELSE sso_read(Str(m, sid), off, len)

data_read_check(m, sid, off, len) ==
    IF is_heap_allocated(Str(m, sid)) THEN mem_read_check(m, Str(m, sid).ptr, off, len)
    ELSE IF m.fault = "none" /\ off + len > SSO_CAPACITY + 1 THEN Fault(m, "sso_overread")
    ELSE m

\* The bytes a string holds: size() bytes from data().
Content(m, sid) == data_read(m, sid, 0, Str(m, sid).size)

\* ---- detail::copy_small: overlapping fixed-width stores ----
\* A store copies w bytes from src + at to dst + at.
RECURSIVE ApplyStores(_, _, _)
ApplyStores(dst, src, stores) ==
    IF stores = <<>> THEN dst
    ELSE ApplyStores(Overlay(dst, Head(stores).at,
                             SubSeq(src, Head(stores).at + 1,
                                    Head(stores).at + Head(stores).w)),
                     src, Tail(stores))

\* copy_small(dst, src, n): the n bytes of dst afterwards
copy_small(dst, src, n) ==
    IF n = 0 THEN dst
    ELSE IF n <= 8 THEN
        IF n >= 4 THEN ApplyStores(dst, src, <<[at |-> 0, w |-> 4], [at |-> n - 4, w |-> 4]>>)
        ELSE IF n >= 2 THEN ApplyStores(dst, src, <<[at |-> 0, w |-> 2], [at |-> n - 2, w |-> 2]>>)
        ELSE ApplyStores(dst, src, <<[at |-> 0, w |-> 1]>>)
    ELSE IF n <= 16 THEN
        ApplyStores(dst, src, <<[at |-> 0, w |-> 8], [at |-> n - 8, w |-> 8]>>)
    ELSE IF n <= 32 THEN
        ApplyStores(dst, src, <<[at |-> 0, w |-> 8], [at |-> 8, w |-> 8],
                                [at |-> n - 16, w |-> 8], [at |-> n - 8, w |-> 8]>>)
    ELSE SubSeq(src, 1, n)

\* copy_sso(dst, src, n) where dst holds `old`: the n bytes now at dst
copy_sso(old, src, n) == copy_small(old, src, n)

\* copy_heap_hot(dst, src, n): memcpy in every branch
copy_heap_hot(src, n) == SubSeq(src, 1, n)

\* detail::copy_sso(_data.sso, src, n)
sso_copy(m, sid, src, n) ==
    sso_write(m, sid, 0, copy_sso(SubSeq(Str(m, sid).sso, 1, n), src, n))

\* detail::copy_sso(new_ptr, src, n)
new_copy_sso(m, src, n) == new_write(m, 0, copy_sso(mem_read(m, m.p, 0, n), src, n))

\* std::memcpy(new_ptr, from, n)
new_copy(m, from, n) ==
    new_write(mem_read_check(m, from, 0, n), 0, mem_read(m, from, 0, n))

\* std::memcpy(_data.heap.ptr, from, n)
heap_copy(m, sid, from, n) ==
    heap_write(mem_read_check(m, from, 0, n), sid, 0, mem_read(m, from, 0, n))

\* _calculate_new_capacity: 32 below 32, else min_capacity with every bit
\* below its highest set bit set (cap |= cap >> 1, 2, 4, 8, 16, 32)
RECURSIVE SmearBits(_)
SmearBits(c) == IF c = 0 THEN 0 ELSE 2 * SmearBits(c \div 2) + 1

\* Defect variant of _calculate_new_capacity: no rounding above the minimum.
calculate_new_capacity_exact(min_capacity) ==
    IF min_capacity < MinHeapCapacity THEN MinHeapCapacity ELSE min_capacity

calculate_new_capacity(min_capacity) ==
    IF min_capacity < MinHeapCapacity THEN MinHeapCapacity ELSE SmearBits(min_capacity)

\* The body shared by _allocate_heap and _allocate_heap_exact once alloc_n
\* is known
allocate_heap_n(m, sid, alloc_n) ==
    LET m1 == allocate_bytes_aligned(m, alloc_n)
        m2 == set_ptr_new(m1, sid)
        m3 == set_capacity(m2, sid, pool_alloc_usable_capacity(alloc_n))
    IN  or_flags(m3, sid, HEAP_ALLOCATED_FLAG)

\* _allocate_heap_exact(exact_capacity)
allocate_heap_exact(m, sid, exact_capacity) == allocate_heap_n(m, sid, exact_capacity + 1)

\* _allocate_heap(min_capacity)
allocate_heap(m, sid, min_capacity) ==
    allocate_heap_n(m, sid, calculate_new_capacity(min_capacity) + 1)

\* Defect variant of _grow_to's Inline branch: the Inline bytes are not
\* copied into the new buffer.
grow_from_sso_no_copy(m, sid, alloc_n) ==
    LET m1 == allocate_bytes_aligned(m, alloc_n)
        m3 == new_write(m1, Str(m, sid).size, <<0>>)
        m4 == set_ptr_new(m3, sid)
        m5 == set_capacity(m4, sid, pool_alloc_usable_capacity(alloc_n))
    IN  or_flags(m5, sid, HEAP_ALLOCATED_FLAG)

\* _grow_to, the branch taken by an Inline string
grow_from_sso(m, sid, alloc_n) ==
    LET m1 == allocate_bytes_aligned(m, alloc_n)
        m2 == new_copy_sso(m1, Str(m, sid).sso, Str(m, sid).size)
        m3 == new_write(m2, Str(m, sid).size, <<0>>)
        m4 == set_ptr_new(m3, sid)
        m5 == set_capacity(m4, sid, pool_alloc_usable_capacity(alloc_n))
    IN  or_flags(m5, sid, HEAP_ALLOCATED_FLAG)

\* _grow_to, the branch taken by a Heap string
grow_from_heap(m, sid, alloc_n) ==
    LET old_ptr == Str(m, sid).ptr
        old_alloc_n == Str(m, sid).cap + 1
        m1 == allocate_bytes_aligned(m, alloc_n)
        m2 == new_copy(m1, old_ptr, Str(m, sid).size)
        m3 == new_write(m2, Str(m, sid).size, <<0>>)
        m4 == deallocate_bytes_aligned(m3, old_ptr, old_alloc_n)
        m5 == set_ptr_new(m4, sid)
    IN  set_capacity(m5, sid, pool_alloc_usable_capacity(alloc_n))

\* _grow_to(min_capacity)
grow_to(m, sid, min_capacity) ==
    IF min_capacity <= capacity(Str(m, sid)) THEN m
    ELSE IF ~is_heap_allocated(Str(m, sid))
    THEN grow_from_sso(m, sid, calculate_new_capacity(min_capacity) + 1)
    ELSE grow_from_heap(m, sid, calculate_new_capacity(min_capacity) + 1)

\* the statements both branches of a constructor or of _assign_impl end with:
\* copy into the buffer, terminate, set _size
fill_sso(m, sid, bytes, len) ==
    LET m1 == sso_copy(m, sid, bytes, len)
        m2 == sso_write(m1, sid, len, <<0>>)
    IN  set_size(m2, sid, len)

fill_heap(m, sid, bytes, len) ==
    LET m1 == heap_write(m, sid, 0, copy_heap_hot(bytes, len))
        m2 == heap_write(m1, sid, len, <<0>>)
    IN  set_size(m2, sid, len)

\* the release of a Heap string's own buffer
release_own(m, sid) ==
    deallocate_bytes_aligned(m, Str(m, sid).ptr, Str(m, sid).cap + 1)

\* Defect variant of _assign_impl: the branch that reuses the heap buffer
\* does not set _size.
assign_impl_reuse_keeps_size(m, sid, cstr, len) ==
    IF is_heap_allocated(Str(m, sid)) /\ Str(m, sid).cap >= len
    THEN heap_write(heap_write(m, sid, 0, copy_heap_hot(cstr, len)), sid, len, <<0>>)
    ELSE LET m1 == IF is_heap_allocated(Str(m, sid))
                   THEN set_flags(release_own(m, sid), sid, 0)
                   ELSE m
         IN  IF fits_in_sso(len)
             THEN set_flags(fill_sso(m1, sid, cstr, len), sid, 0)
             ELSE fill_heap(allocate_heap(m1, sid, len), sid, cstr, len)

\* _assign_impl(cstr, len)
assign_impl(m, sid, cstr, len) ==
    IF is_heap_allocated(Str(m, sid)) /\ Str(m, sid).cap >= len
    THEN fill_heap(m, sid, cstr, len)
    ELSE LET m1 == IF is_heap_allocated(Str(m, sid))
                   THEN set_flags(release_own(m, sid), sid, 0)
                   ELSE m
         IN  IF fits_in_sso(len)
             THEN set_flags(fill_sso(m1, sid, cstr, len), sid, 0)
             ELSE fill_heap(allocate_heap(m1, sid, len), sid, cstr, len)

\* ---- constructors, destructor, assignment ----
\* Storage of an object whose constructor has run its member initialisers
\* _size(0), _flags(0); _data is not initialised.
Raw == [Dead EXCEPT !.alive = TRUE]

\* _data.sso[0] = '\0' in a fresh object
empty_sso(m, sid) == sso_write(SetStr(m, sid, Raw), sid, 0, <<0>>)

\* string()
string_default(m, sid) == empty_sso(m, sid)

\* The common body of string(cstr, len), string(count, ch) and the tail of
\* string(other, pos, count): `bytes` is what copy / fill puts in place.
construct_body(m, sid, bytes, len) ==
    IF fits_in_sso(len) THEN fill_sso(m, sid, bytes, len)
    ELSE fill_heap(allocate_heap_exact(m, sid, len), sid, bytes, len)

\* string(const char* cstr, size_type len)
string_ptr_len(m, sid, cstr, len) ==
    IF len > 0 THEN construct_body(SetStr(m, sid, Raw), sid, cstr, len)
    ELSE empty_sso(m, sid)

\* string(size_type count, char ch)
string_fill(m, sid, count, ch) ==
    IF count > 0 THEN construct_body(SetStr(m, sid, Raw), sid, Fill(count, ch), count)
    ELSE empty_sso(m, sid)

\* Defect variant of the copy constructor's heap branch: the new object takes
\* the source's pointer and capacity instead of a buffer of its own.
string_copy_heap_shares(m, sid, other) ==
    LET m0 == SetStr(m, sid, [Raw EXCEPT !.size = Str(m, other).size])
        m1 == set_ptr(m0, sid, Str(m, other).ptr)
        m2 == set_capacity(m1, sid, Str(m, other).cap)
    IN  or_flags(m2, sid, HEAP_ALLOCATED_FLAG)

\* string(const string& other), other on the heap
string_copy_heap(m, sid, other) ==
    LET m0 == SetStr(m, sid, [Raw EXCEPT !.size = Str(m, other).size])
        m1 == allocate_heap_exact(m0, sid, Str(m, other).size)
        m2 == heap_copy(m1, sid, Str(m, other).ptr, Str(m, other).size)
    IN  heap_write(m2, sid, Str(m, other).size, <<0>>)

\* string(const string& other)
string_copy(m, sid, other) ==
    IF is_heap_allocated(Str(m, other)) THEN string_copy_heap(m, sid, other)
    ELSE sso_copy(SetStr(m, sid, [Raw EXCEPT !.size = Str(m, other).size]), sid,
                  Str(m, other).sso, Str(m, other).size + 1)

\* string(const string& other, size_type pos, size_type count)
\* Throws ("out_of_range" in m.err) when pos > other.size(); the object then
\* never comes to life.
string_substr(m, sid, other, pos, count) ==
    LET len == Min(count, Str(m, other).size - pos)
    IN  IF pos > Str(m, other).size THEN [m EXCEPT !.err = "out_of_range"]
        ELSE IF len = 0 THEN empty_sso(m, sid)
        ELSE construct_body(data_read_check(empty_sso(m, sid), other, pos, len), sid,
                            data_read(m, other, pos, len), len)

\* Defect variant of the moved-from reset: _flags is left as it was.
reset_moved_from_keeps_flags(m, other) ==
    sso_write(set_size(m, other, 0), other, 0, <<0>>)

\* other._size = 0; other._flags = 0; other._data.sso[0] = 0  (moved-from)
reset_moved_from(m, other) ==
    LET m1 == set_size(m, other, 0)
        m2 == set_flags(m1, other, 0)
    IN  sso_write(m2, other, 0, <<0>>)

\* _data(other._data), _size(other._size), _flags(other._flags)
take_fields(m, sid, other) ==
    SetStr(m, sid, [Str(m, other) EXCEPT !.alive = TRUE])

\* string(string&& other)
string_move(m, sid, other) == reset_moved_from(take_fields(m, sid, other), other)

\* ~string()
destroy(m, sid) ==
    SetStr(IF is_heap_allocated(Str(m, sid)) THEN release_own(m, sid) ELSE m, sid, Dead)

\* operator=(const string& other)
copy_assign(m, sid, other) ==
    IF sid # other
    THEN assign_impl(data_read_check(m, other, 0, Str(m, other).size), sid,
                     Content(m, other), Str(m, other).size)
    ELSE m

\* Defect variant of operator=(string&&): the target's own buffer is not
\* released before the source's fields are taken.
move_assign_no_release(m, sid, other) ==
    IF sid # other THEN reset_moved_from(take_fields(m, sid, other), other) ELSE m

\* operator=(string&& other)
move_assign(m, sid, other) ==
    IF sid # other THEN
        LET m1 == IF is_heap_allocated(Str(m, sid)) THEN release_own(m, sid) ELSE m
            m2 == take_fields(m1, sid, other)
        IN  reset_moved_from(m2, other)
    ELSE m

\* swap(string& other)
swap(m, sid, other) ==
    IF sid = other THEN m
    ELSE SetStr(SetStr(m, sid, Str(m, other)), other, Str(m, sid))

\* ---- mutators ----
\* memmove(ptr + to, ptr + from, count) inside the active buffer
data_move(m, sid, to, from, count) ==
    data_write(data_read_check(m, sid, from, count), sid, to,
               data_read(m, sid, from, count))

\* _size = n; ptr[_size] = '\0'
finish(m, sid, n) == data_write(set_size(m, sid, n), sid, n, <<0>>)

\* clear()
clear(m, sid) == finish(m, sid, 0)

\* The tail shared by the append overloads once `bytes` is known.
append_bytes(m, sid, bytes, len) ==
    LET size == Str(m, sid).size
        m1 == IF size + len > capacity(Str(m, sid)) THEN grow_to(m, sid, size + len) ELSE m
        m2 == data_write(m1, sid, size, bytes)
    IN  finish(m2, sid, size + len)

\* append(const char* cstr, size_type len)
append(m, sid, cstr, len) ==
    IF len = 0 THEN m ELSE append_bytes(m, sid, SubSeq(cstr, 1, len), len)

\* append(size_type count, char ch)
append_fill(m, sid, count, ch) ==
    IF count = 0 THEN m ELSE append_bytes(m, sid, Fill(count, ch), count)

\* append(char ch)
append_char(m, sid, ch) ==
    LET cur_size == Str(m, sid).size
        new_size == cur_size + 1
        m1 == IF new_size > capacity(Str(m, sid)) THEN grow_to(m, sid, new_size) ELSE m
        m2 == data_write(m1, sid, cur_size, <<ch>>)
        m3 == data_write(m2, sid, new_size, <<0>>)
    IN  set_size(m3, sid, new_size)

\* push_back(char ch)
push_back(m, sid, ch) == append_char(m, sid, ch)

\* Defect variant of pop_back: the terminator is not rewritten.
pop_back_no_terminator(m, sid) ==
    IF Str(m, sid).size > 0 THEN set_size(m, sid, Str(m, sid).size - 1) ELSE m

\* pop_back()
pop_back(m, sid) ==
    IF Str(m, sid).size > 0 THEN finish(m, sid, Str(m, sid).size - 1) ELSE m

\* assign(const char* cstr, size_type len)
assign(m, sid, cstr, len) == assign_impl(m, sid, cstr, len)

\* assign(size_type count, char ch)
assign_fill(m, sid, count, ch) == append_fill(clear(m, sid), sid, count, ch)

\* Defect variant of erase: the tail is moved one byte short.
erase_short_move(m, sid, pos, len0) ==
    LET size == Str(m, sid).size
        len == IF len0 = NPOS THEN size - pos ELSE Min(len0, size - pos)
    IN  IF pos >= size THEN m
        ELSE IF len = 0 THEN m
        ELSE finish(data_move(m, sid, pos, pos + len, Max(0, size - pos - len - 1)),
                    sid, size - len)

\* erase(size_type pos, size_type len), len = NPOS standing for npos
erase(m, sid, pos, len0) ==
    LET size == Str(m, sid).size
        len == IF len0 = NPOS THEN size - pos ELSE Min(len0, size - pos)
    IN  IF pos >= size THEN m
        ELSE IF len = 0 THEN m
        ELSE finish(data_move(m, sid, pos, pos + len, size - pos - len), sid, size - len)

\* if (new_size >= capacity()) _grow_to(new_size + new_size / 2)
grow_for(m, sid, new_size) ==
    IF new_size >= capacity(Str(m, sid))
    THEN grow_to(m, sid, new_size + (new_size \div 2)) ELSE m

\* The body shared by insert(pos, cstr, len) and insert(pos, count, ch)
insert_bytes(m, sid, pos, bytes, len) ==
    IF len = 0 \/ pos > Str(m, sid).size THEN m
    ELSE LET size == Str(m, sid).size
             m1 == grow_for(m, sid, size + len)
             m2 == data_move(m1, sid, pos + len, pos, size - pos)
             m3 == data_write(m2, sid, pos, bytes)
         IN  finish(m3, sid, size + len)

\* insert(size_type pos, const char* cstr, size_type len)
insert(m, sid, pos, cstr, len) == insert_bytes(m, sid, pos, SubSeq(cstr, 1, len), len)

\* insert(size_type pos, size_type count, char ch)
insert_fill(m, sid, pos, count, ch) == insert_bytes(m, sid, pos, Fill(count, ch), count)

\* if (len != clen) memmove(ptr + pos + clen, ptr + pos + len, _size - pos - len)
move_tail(m, sid, pos, len, clen, size) ==
    IF len # clen THEN data_move(m, sid, pos + clen, pos + len, size - pos - len) ELSE m

\* The body shared by replace(pos, len, cstr, clen) and replace(pos, len, count, ch)
replace_bytes(m, sid, pos, len0, bytes, clen) ==
    IF pos > Str(m, sid).size THEN m
    ELSE LET size == Str(m, sid).size
             len == Min(len0, size - pos)
             new_size == size - len + clen
             m1 == grow_for(m, sid, new_size)
             m2 == move_tail(m1, sid, pos, len, clen, size)
             m3 == data_write(m2, sid, pos, bytes)
         IN  finish(m3, sid, new_size)

\* replace(size_type pos, size_type len, const char* cstr, size_type clen)
replace(m, sid, pos, len, cstr, clen) ==
    replace_bytes(m, sid, pos, len, SubSeq(cstr, 1, clen), clen)

\* replace(size_type pos, size_type len, size_type count, char ch)
replace_fill(m, sid, pos, len, count, ch) ==
    replace_bytes(m, sid, pos, len, Fill(count, ch), count)

\* resize(size_type new_size, char fill)
resize(m, sid, new_size, fill) ==
    LET size == Str(m, sid).size
    IN  finish(IF new_size > size
               THEN data_write(grow_for(m, sid, new_size), sid, size,
                               Fill(new_size - size, fill))
               ELSE m,
               sid, new_size)

\* reserve(size_type cap)
reserve(m, sid, cap) ==
    IF cap > capacity(Str(m, sid)) THEN grow_to(m, sid, cap) ELSE m

\* shrink_to_fit(), the branch that goes back to the Inline buffer
shrink_to_sso(m, sid) ==
    LET size == Str(m, sid).size
        temp == copy_sso(Fill(size, 0), mem_read(m, Str(m, sid).ptr, 0, size), size)
        m1 == mem_read_check(m, Str(m, sid).ptr, 0, size)
        m2 == release_own(m1, sid)
        m3 == sso_copy(m2, sid, temp, size)
        m4 == sso_write(m3, sid, size, <<0>>)
    IN  set_flags(m4, sid, 0)

\* Defect variant of shrink_to_heap: the old buffer is not handed back.
shrink_to_heap_leaks(m, sid) ==
    LET size == Str(m, sid).size
        m1 == allocate_bytes_aligned(m, size + 1)
        m2 == new_copy(m1, Str(m, sid).ptr, size)
        m3 == new_write(m2, size, <<0>>)
        m5 == set_ptr_new(m3, sid)
    IN  set_capacity(m5, sid, size)

\* shrink_to_fit(), the branch that moves to a tighter heap buffer
shrink_to_heap(m, sid) ==
    LET size == Str(m, sid).size
        m1 == allocate_bytes_aligned(m, size + 1)
        m2 == new_copy(m1, Str(m, sid).ptr, size)
        m3 == new_write(m2, size, <<0>>)
        m4 == release_own(m3, sid)
        m5 == set_ptr_new(m4, sid)
    IN  set_capacity(m5, sid, size)

\* shrink_to_fit()
shrink_to_fit(m, sid) ==
    IF is_heap_allocated(Str(m, sid)) /\ Str(m, sid).size < Str(m, sid).cap
    THEN IF fits_in_sso(Str(m, sid).size) THEN shrink_to_sso(m, sid)
         ELSE shrink_to_heap(m, sid)
    ELSE m

\* Defect variant of at: the bound test is pos > size().
at_accepts_size(m, sid, pos) ==
    IF pos > Str(m, sid).size THEN [err |-> "out_of_range", val |-> JUNK]
    ELSE [err |-> "none", val |-> data_read(m, sid, pos, 1)[1]]

\* at(size_type pos): the byte, or the exception, as [err, val]
at(m, sid, pos) ==
    IF pos >= Str(m, sid).size THEN [err |-> "out_of_range", val |-> JUNK]
    ELSE [err |-> "none", val |-> data_read(m, sid, pos, 1)[1]]

\* ---- the state of a run ----
NoRes == [op |-> "none", sid |-> 0, other |-> 0, pos |-> 0, err |-> "none", val |-> JUNK,
          oom |-> FALSE, pre |-> <<>>, cap0 |-> 0, opre |-> <<>>]

\* No string object exists, the recycler tables are empty, no hooks installed.
NoStrings ==
    /\ strs = [sid \in StrIds |-> Dead]
    /\ blocks = [b \in BlockIds |-> NoBlock]
    /\ pool = [t \in Threads |-> [i \in 1..Len(POOL_CLASSES) |-> <<>>]]
    /\ hooks = NoHooks
    /\ fault = "none"
    /\ res = NoRes
    /\ ref = [sid \in StrIds |-> <<>>]
    /\ nops = 0
    /\ env = [oom |-> FALSE]

\* The machine an operation starts from; ok: whether malloc succeeds in it.
Mach(ok) ==
    [strs |-> strs, blocks |-> blocks, pool |-> pool, hooks |-> hooks, fault |-> fault,
     ok |-> ok, p |-> NULL, t |-> MainThread, oom |-> FALSE, err |-> "none"]

\* ------------------------------------------------------------------------
\* Haystacks.  A descriptor [n, fill, at, plant] stands for the n bytes that
\* are all `fill` except that `plant` is written at offset `at`.
\* ------------------------------------------------------------------------
HayByte(h, i) ==
    IF i >= h.at /\ i < h.at + Len(h.plant) THEN h.plant[i - h.at + 1] ELSE h.fill

Literal(s) == [n |-> Len(s), fill |-> 0, at |-> 0, plant |-> s]

RECURSIVE SeqsOver(_, _)
SeqsOver(S, len) ==
    IF len = 0 THEN {<<>>}
    ELSE {Append(s, c) : s \in SeqsOver(S, len - 1), c \in S}

SeqsUpTo(S, len) == UNION {SeqsOver(S, k) : k \in 0..len}

Rep(c, k) == [i \in 1..k |-> c]

\* ------------------------------------------------------------------------
\* Library routines, by their contracts
\* ------------------------------------------------------------------------
\* memcmp(h + off, x, len) == 0
MemEq(h, off, x, len) == \A t \in 0..(len - 1) : HayByte(h, off + t) = x[t + 1]

\* memchr(h + from, c, count): offset of the first c in [from, from+count), or NPOS
MemChr(h, from, count, c) ==
    IF \E i \in from..(from + count - 1) : HayByte(h, i) = c
    THEN CHOOSE i \in from..(from + count - 1) :
            /\ HayByte(h, i) = c
            /\ \A j \in from..(i - 1) : HayByte(h, j) # c
    ELSE NPOS

\* std::string_view(h + base, n).find(x), relative to base: the first offset
\* at which x occurs wholly inside the n bytes, or NPOS.
SvFind(h, base, n, x) ==
    LET last == n - Len(x)
    IN  IF \E i \in 0..last : MemEq(h, base + i, x, Len(x))
        THEN CHOOSE i \in 0..last :
                /\ MemEq(h, base + i, x, Len(x))
                /\ \A j \in 0..(i - 1) : ~MemEq(h, base + j, x, Len(x))
        ELSE NPOS

\* ------------------------------------------------------------------------
\* detail::two_way preprocessing
\* ------------------------------------------------------------------------
RECURSIVE max_suffix_loop(_, _, _, _, _, _)
max_suffix_loop(x, m, i, j, k, period) ==
    IF j + k <= m THEN
        LET a == x[j + k]
            b == x[i + k]
        IN  IF a < b THEN max_suffix_loop(x, m, i, j + k, 1, (j + k) - i)
            ELSE IF a = b THEN
                IF k = period THEN max_suffix_loop(x, m, i, j + period, 1, period)
                ELSE max_suffix_loop(x, m, i, j, k + 1, period)
            ELSE max_suffix_loop(x, m, j, j + 1, 1, 1)
    ELSE [i |-> i, period |-> period]

max_suffix(x, m) == max_suffix_loop(x, m, 0, 1, 1, 1)

RECURSIVE max_suffix_rev_loop(_, _, _, _, _, _)
max_suffix_rev_loop(x, m, i, j, k, period) ==
    IF j + k <= m THEN
        LET a == x[j + k]
            b == x[i + k]
        IN  IF a > b THEN max_suffix_rev_loop(x, m, i, j + k, 1, (j + k) - i)
            ELSE IF a = b THEN
                IF k = period THEN max_suffix_rev_loop(x, m, i, j + period, 1, period)
                ELSE max_suffix_rev_loop(x, m, i, j, k + 1, period)
            ELSE max_suffix_rev_loop(x, m, j, j + 1, 1, 1)
    ELSE [i |-> i, period |-> period]

max_suffix_rev(x, m) == max_suffix_rev_loop(x, m, 0, 1, 1, 1)

\* The factorization search() keeps: the candidate with the larger index.
Factorize(x, m) ==
    LET f1 == max_suffix(x, m)
        f2 == max_suffix_rev(x, m)
    IN  IF f1.i >= f2.i THEN [l |-> f1.i, period |-> f1.period]
        ELSE [l |-> f2.i, period |-> f2.period]

\* memcmp(needle, needle + period, l + 1) == 0.  The call reads the bytes
\* needle[period .. period + l]; those at index >= m lie outside the needle.
\* A difference inside the needle decides the result; when the bytes inside
\* agree the result depends on memory outside it, so both values can occur.
PeriodicOutcomes(x, m, l, period) ==
    LET inside == {t \in 0..l : period + t < m}
    IN  IF \E t \in inside : x[t + 1] # x[period + t + 1] THEN {FALSE}
        ELSE IF period + l >= m THEN {TRUE, FALSE}
        ELSE {TRUE}

PeriodicReadsOutside(m, l, period) == period + l >= m

\* ------------------------------------------------------------------------
\* detail::two_way::search, matching loops
\* ------------------------------------------------------------------------
TwIdle == [n |-> 0, m |-> 0, base |-> 0, l |-> 0, period |-> 0,
           periodic |-> FALSE, pos |-> 0, memory |-> 0, scan |-> 0]

\* while (i < m && needle[i] == pos[i]) ++i;
RECURSIVE RightScan(_, _, _, _, _)
RightScan(h, off, x, m, i) ==
    IF i < m /\ x[i + 1] = HayByte(h, off + i) THEN RightScan(h, off, x, m, i + 1)
    ELSE i

\* while (j <= l && needle[j] == pos[j]) ++j;
RECURSIVE LeftScan(_, _, _, _, _)
LeftScan(h, off, x, l, j) ==
    IF j <= l /\ x[j + 1] = HayByte(h, off + j) THEN LeftScan(h, off, x, l, j + 1)
    ELSE j

\* One iteration of the periodic loop: the locals afterwards, and the value
\* returned if the iteration returns (NoReturn when it goes round again).
NoReturn == NPOS - 1

PeriodicIter(h, x, t) ==
    LET off == t.base + t.pos
        i == RightScan(h, off, x, t.m, Max(t.l + 1, t.memory))
    IN  IF i < t.m THEN
            [t |-> [t EXCEPT !.pos = t.pos + (i - t.l), !.memory = 0], ret |-> NoReturn]
        ELSE
            LET j == LeftScan(h, off, x, t.l, t.memory)
            IN  IF j > t.l THEN [t |-> t, ret |-> t.pos]
                ELSE [t |-> [t EXCEPT !.pos = t.pos + t.period,
                                      !.memory = IF t.m > t.period
                                                 THEN t.m - t.period ELSE 0],
                      ret |-> NoReturn]

NonPeriodicIter(h, x, t) ==
    LET off == t.base + t.pos
        right_skip == t.l + 1
        i == RightScan(h, off, x, t.m, t.l + 1)
    IN  IF i < t.m THEN
            [t |-> [t EXCEPT !.pos = t.pos + (i - t.l)], ret |-> NoReturn]
        ELSE
            LET j == LeftScan(h, off, x, t.l, 0)
            IN  IF j > t.l THEN [t |-> t, ret |-> t.pos]
                ELSE [t |-> [t EXCEPT !.pos = t.pos + right_skip], ret |-> NoReturn]

\* What find() makes of the pointer search() returned.
FromSearch(ret) ==
    IF ret = NPOS THEN NPOS
    ELSE tw.base + ret

\* ------------------------------------------------------------------------
\* Search inputs
\* ------------------------------------------------------------------------
RunNeedle(k) == Append(Rep(A, k), B)          \* a^k b

LongNeedles ==
    {RunNeedle(k) : k \in 8..MaxRun}
    \cup {<<A, B, A, B, A, B, A, B, A, B>>,       \* (ab)^5
          <<A, A, B, A, A, B, A, A, B, A, A>>,    \* (aab)^3 aa
          <<B, A, B, A, A, A, B, A, B, A, A, A>>, \* (babaaa)^2
          <<B, B, B, B, B, B, B, B, B, A>>,       \* b^9 a
          <<A, B, B, A, B, A, A, B, B, A>>}

\* Haystacks for a long needle x: x planted in a run of one byte.
PlantedHays(x) ==
    {[n |-> Len(x) + pad, fill |-> c, at |-> off, plant |-> x] :
        pad \in 0..(MaxPad + 3), c \in {A, B}, off \in 0..(MaxPad + 3)}

\* Haystacks at and above the Two-Way threshold: x planted after at least
\* kTwoWayHaystackThreshold bytes 'a', followed by `tail` more bytes 'a'.
BigHays(x, tail) ==
    {[n |-> kTwoWayHaystackThreshold + pad + Len(x) + tail, fill |-> A,
      at |-> kTwoWayHaystackThreshold + pad, plant |-> x] : pad \in 0..MaxPad}

SearchInputs ==
    {<<h, x>> : x \in LongNeedles, h \in UNION {PlantedHays(y) : y \in LongNeedles}}

\* ------------------------------------------------------------------------
\* The calls: string::find(sv, pos) and two_way::search(haystack, n, needle, m)
\* ------------------------------------------------------------------------
FindInputs ==
    {<<Literal(s), x, p>> :
        s \in SeqsUpTo({A, B}, MaxSmallHay),
        x \in SeqsUpTo({A, B}, MaxSmallNeedle),
        p \in 0..(MaxSmallHay + 1)}
    \cup {<<h, x, p>> :
        x \in {<<>>, <<B>>, <<B, A>>, <<B, B>>, RunNeedle(24)},
        h \in BigHays(RunNeedle(24), 1),
        p \in {0, 1, Len(RunNeedle(24)) + 1 + MaxPad}}

InitFind ==
    /\ entry \in {"find", "search"}
    /\ \/ /\ entry = "find"
          /\ \E in \in FindInputs :
                hay = in[1] /\ needle = in[2] /\ startPos = in[3]
          /\ fpc = "find"
          /\ tw = TwIdle
       \/ /\ entry = "search"
          /\ \E in \in SearchInputs : hay = in[1] /\ needle = in[2]
          /\ startPos = 0
          /\ fpc = "search"
          /\ tw = [TwIdle EXCEPT !.n = hay.n, !.m = Len(needle)]
    /\ found = NoReturn
    /\ NoStrings

\* Defect variant of find: the Two-Way threshold is tested against size()
\* instead of the remaining length.
FindByTotalSize ==
    /\ fpc = "find"
    /\ LET size == hay.n
           remaining == size - startPos
           m == Len(needle)
       IN  IF startPos > size THEN
               /\ found' = NPOS /\ fpc' = "done" /\ tw' = tw
           ELSE IF m = 0 THEN
               /\ found' = startPos /\ fpc' = "done" /\ tw' = tw
           ELSE IF m = 1 THEN
               /\ found' = MemChr(hay, startPos, remaining, needle[1])
               /\ fpc' = "done" /\ tw' = tw
           ELSE IF size >= kTwoWayHaystackThreshold /\ m >= 2 THEN
               /\ tw' = [TwIdle EXCEPT !.base = startPos, !.n = remaining, !.m = m]
               /\ fpc' = "search" /\ found' = found
           ELSE
               /\ found' = (LET r == SvFind(hay, startPos, remaining, needle)
                            IN  IF r = NPOS THEN NPOS ELSE startPos + r)
               /\ fpc' = "done" /\ tw' = tw
    /\ UNCHANGED <<hay, needle, startPos, entry, strVars>>

\* string::find(std::string_view sv, size_type pos)
Find ==
    /\ fpc = "find"
    /\ LET size == hay.n
           remaining == size - startPos
           m == Len(needle)
       IN  IF startPos > size THEN
               /\ found' = NPOS /\ fpc' = "done" /\ tw' = tw
           ELSE IF m = 0 THEN
               /\ found' = startPos /\ fpc' = "done" /\ tw' = tw
           ELSE IF m = 1 THEN
               /\ found' = MemChr(hay, startPos, remaining, needle[1])
               /\ fpc' = "done" /\ tw' = tw
           ELSE IF remaining >= kTwoWayHaystackThreshold /\ m >= 2 THEN
               /\ tw' = [TwIdle EXCEPT !.base = startPos, !.n = remaining, !.m = m]
               /\ fpc' = "search" /\ found' = found
           ELSE
               /\ found' = (LET r == SvFind(hay, startPos, remaining, needle)
                            IN  IF r = NPOS THEN NPOS ELSE startPos + r)
               /\ fpc' = "done" /\ tw' = tw
    /\ UNCHANGED <<hay, needle, startPos, entry, strVars>>

\* two_way::search up to the matching loop: the early returns, the short
\* needle path, the preprocessing.
SearchEnter ==
    /\ fpc = "search"
    /\ IF tw.m = 0 THEN
           /\ found' = FromSearch(0) /\ fpc' = "done" /\ tw' = tw
       ELSE IF tw.m > tw.n THEN
           /\ found' = NPOS /\ fpc' = "done" /\ tw' = tw
       ELSE IF tw.m <= ShortNeedleMax THEN
           /\ tw' = [tw EXCEPT !.scan = 0]
           /\ fpc' = "short" /\ found' = found
       ELSE
           LET f == Factorize(needle, tw.m)
           IN  /\ \E periodic \in PeriodicOutcomes(needle, tw.m, f.l, f.period) :
                     tw' = [tw EXCEPT !.l = f.l, !.period = f.period,
                                      !.periodic = periodic, !.pos = 0, !.memory = 0]
               /\ fpc' = "loop" /\ found' = found
    /\ UNCHANGED <<hay, needle, startPos, entry, strVars>>

\* One iteration of the short-needle loop (m <= 8): memchr, then memcmp.
ShortIter ==
    /\ fpc = "short"
    /\ LET limit == tw.n - tw.m
       IN  IF tw.scan <= limit THEN
               LET hit == MemChr(hay, tw.base + tw.scan, limit - tw.scan + 1, needle[1])
               IN  IF hit = NPOS THEN
                       /\ found' = NPOS /\ fpc' = "done" /\ tw' = tw
                   ELSE IF MemEq(hay, hit, needle, tw.m) THEN
                       /\ found' = hit /\ fpc' = "done"
                       /\ tw' = [tw EXCEPT !.scan = hit - tw.base]
                   ELSE
                       /\ tw' = [tw EXCEPT !.scan = (hit - tw.base) + 1]
                       /\ fpc' = fpc /\ found' = found
           ELSE
               /\ found' = NPOS /\ fpc' = "done" /\ tw' = tw
    /\ UNCHANGED <<hay, needle, startPos, entry, strVars>>

\* One iteration of while (pos <= end), periodic branch.
LoopPeriodic ==
    /\ fpc = "loop" /\ tw.periodic
    /\ IF tw.pos <= tw.n - tw.m THEN
           LET r == PeriodicIter(hay, needle, tw)
           IN  IF r.ret = NoReturn
               THEN tw' = r.t /\ fpc' = fpc /\ found' = found
               ELSE tw' = r.t /\ fpc' = "done" /\ found' = FromSearch(r.ret)
       ELSE
           /\ found' = NPOS /\ fpc' = "done" /\ tw' = tw
    /\ UNCHANGED <<hay, needle, startPos, entry, strVars>>

\* One iteration of while (pos <= end), non-periodic branch.
LoopNonPeriodic ==
    /\ fpc = "loop" /\ ~tw.periodic
    /\ IF tw.pos <= tw.n - tw.m THEN
           LET r == NonPeriodicIter(hay, needle, tw)
           IN  IF r.ret = NoReturn
               THEN tw' = r.t /\ fpc' = fpc /\ found' = found
               ELSE tw' = r.t /\ fpc' = "done" /\ found' = FromSearch(r.ret)
       ELSE
           /\ found' = NPOS /\ fpc' = "done" /\ tw' = tw
    /\ UNCHANGED <<hay, needle, startPos, entry, strVars>>

NextFind ==
    \/ Find
    \/ SearchEnter
    \/ ShortIter
    \/ LoopPeriodic
    \/ LoopNonPeriodic

SpecFind == InitFind /\ [][NextFind]_vars

\* ------------------------------------------------------------------------
\* two_way::search as built with __AVX2__: each pass of the matching loop
\* starts with the 32-byte block prescan.  The bytes the haystack descriptor
\* gives at offsets >= n are what the memory behind the haystack holds.
\* ------------------------------------------------------------------------
AvxBlock == 32

\* The inner while of the prescan: blocks without needle[l+1] move pos and
\* scan on by 32; a block with it moves pos to the first such byte.
RECURSIVE Prescan(_, _, _, _, _)
Prescan(h, t, c, pos, scan) ==
    IF scan + AvxBlock <= t.n /\ pos <= t.n - t.m THEN
        LET hits == {k \in 0..(AvxBlock - 1) : HayByte(h, t.base + scan + k) = c}
        IN  IF hits # {}
            THEN [pos |-> scan - (t.l + 1) + (CHOOSE k \in hits : \A j \in hits : k <= j),
                  hit |-> TRUE]
            ELSE Prescan(h, t, c, pos + AvxBlock, scan + AvxBlock)
    ELSE [pos |-> pos, hit |-> FALSE]

AvxNeedles ==
    {<<A, B, A, B, A, B, A, B, A, B>>,       \* (ab)^5: periodic, l = 1
     <<A, B, B, A, B, A, A, B, B, A>>,       \* non-periodic, l = 5
     RunNeedle(8)}                           \* l = m - 1: no prescan

\* Haystacks of one block and a little more, the needle planted near the end
\* or across it
AvxHays(x) ==
    {[n |-> AvxBlock + n0 + pad, fill |-> c,
      at |-> (AvxBlock + n0 + pad) - off, plant |-> x] :
        n0 \in {6, Len(x)}, pad \in 0..MaxPad, c \in {A, B}, off \in 2..(Len(x) + 2)}

InitFindAvx ==
    /\ entry = "search_avx"
    /\ \E x \in AvxNeedles : \E h \in AvxHays(x) : hay = h /\ needle = x
    /\ startPos = 0
    /\ fpc = "search"
    /\ tw = [TwIdle EXCEPT !.n = hay.n, !.m = Len(needle)]
    /\ found = NoReturn
    /\ NoStrings

\* while (pos <= end), then the prescan block of the loop body.  tw.scan
\* keeps the position the pass started from.
AvxPrescan ==
    /\ fpc = "loop"
    /\ IF tw.pos > tw.n - tw.m THEN
           /\ found' = NPOS /\ fpc' = "done" /\ tw' = tw
       ELSE IF tw.l + 1 < tw.m /\ (~tw.periodic \/ tw.memory = 0) THEN
           LET r == Prescan(hay, tw, needle[tw.l + 2], tw.pos, tw.pos + tw.l + 1)
           IN  IF ~r.hit /\ r.pos > tw.n - tw.m THEN
                   /\ found' = NPOS /\ fpc' = "done"
                   /\ tw' = [tw EXCEPT !.scan = tw.pos, !.pos = r.pos]
               ELSE
                   /\ tw' = [tw EXCEPT !.scan = tw.pos, !.pos = r.pos]
                   /\ fpc' = "scalar" /\ found' = found
       ELSE
           /\ tw' = [tw EXCEPT !.scan = tw.pos]
           /\ fpc' = "scalar" /\ found' = found
    /\ UNCHANGED <<hay, needle, startPos, entry, strVars>>

\* The scalar comparison of the pass, periodic branch
AvxPeriodic ==
    /\ fpc = "scalar" /\ tw.periodic
    /\ LET r == PeriodicIter(hay, needle, tw)
       IN  IF r.ret = NoReturn
           THEN tw' = r.t /\ fpc' = "loop" /\ found' = found
           ELSE tw' = r.t /\ fpc' = "done" /\ found' = FromSearch(r.ret)
    /\ UNCHANGED <<hay, needle, startPos, entry, strVars>>

\* The scalar comparison of the pass, non-periodic branch
AvxNonPeriodic ==
    /\ fpc = "scalar" /\ ~tw.periodic
    /\ LET r == NonPeriodicIter(hay, needle, tw)
       IN  IF r.ret = NoReturn
           THEN tw' = r.t /\ fpc' = "loop" /\ found' = found
           ELSE tw' = r.t /\ fpc' = "done" /\ found' = FromSearch(r.ret)
    /\ UNCHANGED <<hay, needle, startPos, entry, strVars>>

NextFindAvx == SearchEnter \/ AvxPrescan \/ AvxPeriodic \/ AvxNonPeriodic
SpecFindAvx == InitFindAvx /\ [][NextFindAvx]_vars

\* ------------------------------------------------------------------------
\* The other overloads of find.  A C-string argument is the bytes up to and
\* including its terminator; the null pointer is the argument with no bytes
\* at all.
\* ------------------------------------------------------------------------
NullCStr == <<>>
CStr(x) == x \o <<0>>

\* strlen
RECURSIVE StrLen(_, _)
StrLen(c, i) == IF c[i + 1] = 0 THEN i ELSE StrLen(c, i + 1)

\* Defect variant of find_cstr_empty: the end position is refused.
find_cstr_empty_strict(size, pos) == IF pos < size THEN pos ELSE NPOS

\* find(const char*, size_type), the branch for the empty C-string
find_cstr_empty(size, pos) == IF pos <= size THEN pos ELSE NPOS

EdgeInputs ==
    {<<Literal(s), x, p>> :
        s \in SeqsUpTo({A, B}, MaxSmallHay),
        x \in SeqsUpTo({A, B}, 2),
        p \in 0..(MaxSmallHay + 1)}

InitFindEdge ==
    /\ entry \in {"find", "find_cstr", "find_string"}
    /\ \E in \in EdgeInputs :
          /\ hay = in[1] /\ startPos = in[3]
          /\ needle \in (IF entry = "find_cstr" THEN {CStr(in[2]), NullCStr} ELSE {in[2]})
    /\ fpc = entry
    /\ tw = TwIdle
    /\ found = NoReturn
    /\ NoStrings

\* find(const char* substr, size_type pos)
FindCStr ==
    /\ fpc = "find_cstr"
    /\ IF needle = NullCStr THEN
           /\ found' = NPOS /\ fpc' = "done" /\ needle' = needle
       ELSE IF needle[1] = 0 THEN
           /\ found' = find_cstr_empty(hay.n, startPos) /\ fpc' = "done" /\ needle' = needle
       ELSE
           /\ needle' = SubSeq(needle, 1, StrLen(needle, 0))
           /\ fpc' = "find" /\ found' = found
    /\ UNCHANGED <<hay, startPos, entry, tw, strVars>>

\* find(const string& str, size_type pos): the view of str's bytes
FindString ==
    /\ fpc = "find_string"
    /\ needle' = SubSeq(needle, 1, Len(needle))
    /\ fpc' = "find" /\ found' = found
    /\ UNCHANGED <<hay, startPos, entry, tw, strVars>>

NextFindEdge == FindCStr \/ FindString \/ Find
SpecFindEdge == InitFindEdge /\ [][NextFindEdge]_vars


\* ========================================================================
\* STORAGE RUNS: operations applied to string objects, one after another
\* ========================================================================
\* The search engine is at rest during a storage run.
FindIdle ==
    /\ hay = Literal(<<>>) /\ needle = <<>> /\ startPos = 0
    /\ entry = "none" /\ fpc = "idle" /\ tw = TwIdle /\ found = NoReturn

\* Caller-supplied bytes: len bytes counting up from `base`, never 0.
Pattern(len, base) == SubSeq([i \in 1..len |-> base + ((i - 1) % 10)], 1, len)
Lower == Alphabet[1]
Upper == Lower - 32

\* Arguments the operations are called with
CtorLens == {0, 5, SSO_CAPACITY, SSO_THRESHOLD, 40}
SrcLens == {1, 30}
AssignLens == {3, 70}
FillCounts == {0, 25}
EraseLens == {1, NPOS}
ReplaceLens == {2}
ResizeTargets == {10, SSO_THRESHOLD, 100}
ReserveCaps == {100, 5000}
Positions(size) == {0, size \div 2, size, size + 1}
EdgePositions(size) == {size \div 2, size + 1}
OkChoices == IF env.oom THEN BOOLEAN ELSE {TRUE}

\* ---- the reference byte sequence (what std::string would hold) ----
RefInsert(r, pos, x) ==
    IF pos > Len(r) THEN r ELSE SubSeq(r, 1, pos) \o x \o SubSeq(r, pos + 1, Len(r))

RefErase(r, pos, len0) ==
    IF pos > Len(r) THEN r
    ELSE LET len == IF len0 = NPOS THEN Len(r) - pos ELSE Min(len0, Len(r) - pos)
         IN  SubSeq(r, 1, pos) \o SubSeq(r, pos + len + 1, Len(r))

RefReplace(r, pos, len0, x) ==
    IF pos > Len(r) THEN r
    ELSE LET len == Min(len0, Len(r) - pos)
         IN  SubSeq(r, 1, pos) \o x \o SubSeq(r, pos + len + 1, Len(r))

RefResize(r, n, c) ==
    IF n <= Len(r) THEN SubSeq(r, 1, n) ELSE r \o Fill(n - Len(r), c)

RefSubstr(r, pos, count) ==
    IF pos > Len(r) THEN <<>> ELSE SubSeq(r, pos + 1, pos + Min(count, Len(r) - pos))

\* What an operation leaves behind for inspection: its name and arguments,
\* the exception it threw (err), whether the allocator ran dry under it (oom),
\* and the content / capacity of its operands before it ran.
Outcome(op, sid, other, pos, m0, m, err, val) ==
    [op |-> op, sid |-> sid, other |-> other, pos |-> pos, err |-> err, val |-> val,
     oom |-> m.oom,
     pre |-> IF m0.strs[sid].alive THEN Content(m0, sid) ELSE <<>>,
     cap0 |-> IF m0.strs[sid].alive THEN capacity(Str(m0, sid)) ELSE 0,
     opre |-> IF other \in StrIds /\ m0.strs[other].alive THEN Content(m0, other) ELSE <<>>]

\* The operation has run: m is the machine it leaves, r the reference content.
Done(op, sid, other, pos, m0, m, newRef) ==
    /\ strs' = m.strs /\ blocks' = m.blocks /\ pool' = m.pool /\ fault' = m.fault
    /\ res' = Outcome(op, sid, other, pos, m0, m, m.err, JUNK)
    /\ ref' = newRef
    /\ nops' = nops + 1
    /\ UNCHANGED <<hooks, env, findVars>>

CanRun == fault = "none" /\ nops < MaxOps
Alive(sid) == strs[sid].alive

\* A run starts with one string constructed from caller bytes.
InitStrings(oom) ==
    /\ FindIdle
    /\ \E len \in CtorLens \ {0} :
         LET m0 == [strs |-> [sid \in StrIds |-> Dead],
                    blocks |-> [b \in BlockIds |-> NoBlock],
                    pool |-> [t \in Threads |-> [i \in 1..Len(POOL_CLASSES) |-> <<>>]],
                    hooks |-> NoHooks, fault |-> "none", ok |-> TRUE, p |-> NULL,
                    t |-> MainThread, oom |-> FALSE, err |-> "none"]
             m == string_ptr_len(m0, 1, Pattern(len, Upper), len)
         IN  /\ strs = m.strs /\ blocks = m.blocks /\ pool = m.pool /\ fault = m.fault
             /\ ref = [sid \in StrIds |-> IF sid = 1 THEN Pattern(len, Upper) ELSE <<>>]
    /\ hooks = NoHooks
    /\ res = NoRes
    /\ nops = 0
    /\ env = [oom |-> oom]

Init == InitStrings(FALSE)

\* ---- constructors and destructor ----
Construct ==
    \E sid \in StrIds, len \in CtorLens, ok \in OkChoices :
        /\ CanRun /\ ~Alive(sid)
        /\ LET m0 == Mach(ok) IN
             Done("construct", sid, 0, 0, m0,
                  string_ptr_len(m0, sid, Pattern(len, Lower), len),
                  [ref EXCEPT ![sid] = Pattern(len, Lower)])

ConstructFill ==
    \E sid \in StrIds, count \in FillCounts, ok \in OkChoices :
        /\ CanRun /\ ~Alive(sid)
        /\ LET m0 == Mach(ok) IN
             Done("construct_fill", sid, 0, 0, m0,
                  string_fill(m0, sid, count, Lower),
                  [ref EXCEPT ![sid] = Fill(count, Lower)])

ConstructDefault ==
    \E sid \in StrIds :
        /\ CanRun /\ ~Alive(sid)
        /\ LET m0 == Mach(TRUE) IN
             Done("construct_default", sid, 0, 0, m0, string_default(m0, sid),
                  [ref EXCEPT ![sid] = <<>>])

ConstructCopy ==
    \E sid \in StrIds, other \in StrIds, ok \in OkChoices :
        /\ CanRun /\ ~Alive(sid) /\ Alive(other)
        /\ LET m0 == Mach(ok) IN
             Done("construct_copy", sid, other, 0, m0, string_copy(m0, sid, other),
                  [ref EXCEPT ![sid] = ref[other]])

ConstructSubstr ==
    \E sid \in StrIds, other \in StrIds, ok \in OkChoices :
      \E pos \in Positions(strs[other].size), count \in {30} :
        /\ CanRun /\ ~Alive(sid) /\ Alive(other)
        /\ LET m0 == Mach(ok) IN
             Done("construct_substr", sid, other, pos, m0,
                  string_substr(m0, sid, other, pos, count),
                  [ref EXCEPT ![sid] = RefSubstr(ref[other], pos, count)])

ConstructMove ==
    \E sid \in StrIds, other \in StrIds :
        /\ CanRun /\ ~Alive(sid) /\ Alive(other)
        /\ LET m0 == Mach(TRUE) IN
             Done("construct_move", sid, other, 0, m0, string_move(m0, sid, other),
                  [ref EXCEPT ![sid] = ref[other], ![other] = <<>>])

Destroy ==
    \E sid \in StrIds :
        /\ CanRun /\ Alive(sid)
        /\ LET m0 == Mach(TRUE) IN
             Done("destroy", sid, 0, 0, m0, destroy(m0, sid), [ref EXCEPT ![sid] = <<>>])


\* ---- assignment ----
CopyAssign ==
    \E sid \in StrIds, other \in StrIds, ok \in OkChoices :
        /\ CanRun /\ Alive(sid) /\ Alive(other)
        /\ LET m0 == Mach(ok) IN
             Done("copy_assign", sid, other, 0, m0,
                  copy_assign(m0, sid, other),
                  [ref EXCEPT ![sid] = ref[other]])

MoveAssign ==
    \E sid \in StrIds, other \in StrIds :
        /\ CanRun /\ Alive(sid) /\ Alive(other)
        /\ LET m0 == Mach(TRUE) IN
             Done("move_assign", sid, other, 0, m0,
                  move_assign(m0, sid, other),
                  [ref EXCEPT ![sid] = ref[other], ![other] = IF other = sid THEN ref[other] ELSE <<>>])

Swap ==
    \E sid \in StrIds, other \in StrIds :
        /\ CanRun /\ Alive(sid) /\ Alive(other)
        /\ LET m0 == Mach(TRUE) IN
             Done("swap", sid, other, 0, m0,
                  swap(m0, sid, other),
                  [ref EXCEPT ![sid] = ref[other], ![other] = ref[sid]])

Assign ==
    \E sid \in StrIds, len \in AssignLens, ok \in OkChoices :
        /\ CanRun /\ Alive(sid)
        /\ LET m0 == Mach(ok) IN
             Done("assign", sid, 0, 0, m0,
                  assign(m0, sid, Pattern(len, Lower), len),
                  [ref EXCEPT ![sid] = Pattern(len, Lower)])

AssignFill ==
    \E sid \in StrIds, count \in {25}, ok \in OkChoices :
        /\ CanRun /\ Alive(sid)
        /\ LET m0 == Mach(ok) IN
             Done("assign_fill", sid, 0, 0, m0,
                  assign_fill(m0, sid, count, Upper),
                  [ref EXCEPT ![sid] = Fill(count, Upper)])

\* ---- growth and shrinking ----
AppendBytes ==
    \E sid \in StrIds, len \in SrcLens, ok \in OkChoices :
        /\ CanRun /\ Alive(sid)
        /\ LET m0 == Mach(ok) IN
             Done("append", sid, 0, 0, m0,
                  append(m0, sid, Pattern(len, Lower), len),
                  [ref EXCEPT ![sid] = @ \o Pattern(len, Lower)])

AppendFill ==
    \E sid \in StrIds, count \in {25}, ok \in OkChoices :
        /\ CanRun /\ Alive(sid)
        /\ LET m0 == Mach(ok) IN
             Done("append_fill", sid, 0, 0, m0,
                  append_fill(m0, sid, count, Upper),
                  [ref EXCEPT ![sid] = @ \o Fill(count, Upper)])

PushBack ==
    \E sid \in StrIds, ok \in OkChoices :
        /\ CanRun /\ Alive(sid)
        /\ LET m0 == Mach(ok) IN
             Done("push_back", sid, 0, 0, m0,
                  push_back(m0, sid, Lower),
                  [ref EXCEPT ![sid] = Append(@, Lower)])

PopBack ==
    \E sid \in StrIds :
        /\ CanRun /\ Alive(sid)
        /\ LET m0 == Mach(TRUE) IN
             Done("pop_back", sid, 0, 0, m0,
                  pop_back(m0, sid),
                  [ref EXCEPT ![sid] = IF Len(@) > 0 THEN SubSeq(@, 1, Len(@) - 1) ELSE @])

Resize ==
    \E sid \in StrIds, n \in ResizeTargets, ok \in OkChoices :
        /\ CanRun /\ Alive(sid)
        /\ LET m0 == Mach(ok) IN
             Done("resize", sid, 0, 0, m0,
                  resize(m0, sid, n, Upper),
                  [ref EXCEPT ![sid] = RefResize(@, n, Upper)])

Reserve ==
    \E sid \in StrIds, cap \in ReserveCaps, ok \in OkChoices :
        /\ CanRun /\ Alive(sid)
        /\ LET m0 == Mach(ok) IN
             Done("reserve", sid, 0, 0, m0,
                  reserve(m0, sid, cap),
                  [ref EXCEPT ![sid] = @])

ShrinkToFit ==
    \E sid \in StrIds, ok \in OkChoices :
        /\ CanRun /\ Alive(sid)
        /\ LET m0 == Mach(ok) IN
             Done("shrink_to_fit", sid, 0, 0, m0,
                  shrink_to_fit(m0, sid),
                  [ref EXCEPT ![sid] = @])

Clear ==
    \E sid \in StrIds :
        /\ CanRun /\ Alive(sid)
        /\ LET m0 == Mach(TRUE) IN
             Done("clear", sid, 0, 0, m0,
                  clear(m0, sid),
                  [ref EXCEPT ![sid] = <<>>])

\* ---- position-taking mutators ----
Erase ==
    \E sid \in StrIds, len \in EraseLens :
      \E pos \in Positions(strs[sid].size) :
        /\ CanRun /\ Alive(sid)
        /\ LET m0 == Mach(TRUE) IN
             Done("erase", sid, 0, pos, m0, erase(m0, sid, pos, len),
                  [ref EXCEPT ![sid] = RefErase(@, pos, len)])

Insert ==
    \E sid \in StrIds, len \in SrcLens, ok \in OkChoices :
      \E pos \in Positions(strs[sid].size) :
        /\ CanRun /\ Alive(sid)
        /\ LET m0 == Mach(ok) IN
             Done("insert", sid, 0, pos, m0,
                  insert(m0, sid, pos, Pattern(len, Lower), len),
                  [ref EXCEPT ![sid] = RefInsert(@, pos, Pattern(len, Lower))])

InsertFill ==
    \E sid \in StrIds, count \in FillCounts, ok \in OkChoices :
      \E pos \in EdgePositions(strs[sid].size) :
        /\ CanRun /\ Alive(sid)
        /\ LET m0 == Mach(ok) IN
             Done("insert_fill", sid, 0, pos, m0,
                  insert_fill(m0, sid, pos, count, Upper),
                  [ref EXCEPT ![sid] = RefInsert(@, pos, Fill(count, Upper))])

Replace ==
    \E sid \in StrIds, len \in ReplaceLens, clen \in SrcLens, ok \in OkChoices :
      \E pos \in Positions(strs[sid].size) :
        /\ CanRun /\ Alive(sid)
        /\ LET m0 == Mach(ok) IN
             Done("replace", sid, 0, pos, m0,
                  replace(m0, sid, pos, len, Pattern(clen, Lower), clen),
                  [ref EXCEPT ![sid] = RefReplace(@, pos, len, Pattern(clen, Lower))])

ReplaceFill ==
    \E sid \in StrIds, len \in {2}, count \in {25}, ok \in OkChoices :
      \E pos \in EdgePositions(strs[sid].size) :
        /\ CanRun /\ Alive(sid)
        /\ LET m0 == Mach(ok) IN
             Done("replace_fill", sid, 0, pos, m0,
                  replace_fill(m0, sid, pos, len, count, Upper),
                  [ref EXCEPT ![sid] = RefReplace(@, pos, len, Fill(count, Upper))])

\* ---- checked access ----
At ==
    \E sid \in StrIds :
      \E pos \in Positions(strs[sid].size) :
        /\ CanRun /\ Alive(sid)
        /\ LET m0 == Mach(TRUE)
                r == at(m0, sid, pos)
           IN  /\ res' = Outcome("at", sid, 0, pos, m0, m0, r.err, r.val)
               /\ nops' = nops + 1
               /\ UNCHANGED <<strs, blocks, pool, hooks, fault, ref, env, findVars>>

\* set_hooks(a, d, aa, da) called by the application between two operations
SetHooks ==
    \E a \in BOOLEAN, d \in BOOLEAN, aa \in BOOLEAN, da \in BOOLEAN :
        /\ CanRun
        /\ hooks' = set_hooks(a, d, aa, da)
        /\ hooks' # hooks
        /\ res' = [NoRes EXCEPT !.op = "set_hooks"]
        /\ UNCHANGED <<strs, blocks, pool, fault, ref, nops, env, findVars>>

Next ==
    \/ Construct \/ ConstructFill \/ ConstructDefault \/ ConstructCopy
    \/ ConstructSubstr \/ ConstructMove \/ Destroy
    \/ CopyAssign \/ MoveAssign \/ Swap \/ Assign \/ AssignFill
    \/ AppendBytes \/ AppendFill \/ PushBack \/ PopBack \/ Resize \/ Reserve
    \/ ShrinkToFit \/ Clear
    \/ Erase \/ Insert \/ InsertFill \/ Replace \/ ReplaceFill
    \/ At

Spec == Init /\ [][Next]_vars

\* The same run with the application installing hooks along the way
NextHooks == Next \/ SetHooks
SpecHooks == Init /\ [][NextHooks]_vars

\* A run of mutators on the one string the run starts with
NextSolo ==
    \/ Assign \/ AssignFill
    \/ AppendBytes \/ AppendFill \/ PushBack \/ PopBack \/ Resize \/ Reserve
    \/ ShrinkToFit \/ Clear
    \/ Erase \/ Insert \/ InsertFill \/ Replace \/ ReplaceFill
SpecSolo == Init /\ [][NextSolo]_vars

\* ------------------------------------------------------------------------
\* RECYCLER RUNS: threads calling the default allocate / release directly
\* ------------------------------------------------------------------------
MaxPoolBlocks == 9    \* blocks the platform allocator can have handed out at once
PoolBlockIds == 1..MaxPoolBlocks
MainSize == 40        \* the byte count most calls ask for (class 64)
PoolSizes == {MainSize, 100}    \* byte counts asked for (classes 64, 128)

InitPool ==
    /\ FindIdle
    /\ strs = [sid \in StrIds |-> Dead]
    /\ blocks = [b \in PoolBlockIds |-> NoBlock]
    /\ pool = [t \in Threads |-> [i \in 1..Len(POOL_CLASSES) |-> <<>>]]
    /\ hooks = NoHooks /\ fault = "none" /\ res = NoRes
    /\ ref = [sid \in StrIds |-> <<>>]
    /\ nops = 0
    /\ env = [oom |-> FALSE]

HeldBlocks == {b \in DOMAIN blocks : blocks[b].st = "held"}

\* The blocks a caller gives back next: the oldest or the newest it holds
ReleaseChoices ==
    {b \in HeldBlocks : (\A c \in HeldBlocks : b <= c) \/ (\A c \in HeldBlocks : b >= c)}

\* The slots of thread t's table for the class of byte count n
Parked(t, n) ==
    IF pool_class_index(n) < 0 THEN <<>> ELSE pool[t][pool_class_index(n)]

\* Blocks that are held or parked
InCirculation == {b \in DOMAIN blocks : blocks[b].st \in {"held", "pooled"}}

\* Calls for another byte count than MainSize come one at a time, from a
\* caller that holds no block.
SizeAllowed(t, n) ==
    \/ n = MainSize
    \/ /\ HeldBlocks = {}
       /\ ((\A b \in InCirculation : blocks[b].req = MainSize) \/ Parked(t, n) # <<>>)

\* What a recycler call leaves behind for inspection: the calling thread
\* (sid), the byte count (pos), the block returned or released (val), and of
\* the class table of that thread before the call: its count (cap0) and its
\* slots (pre)
PoolOutcome(op, t, n, b) ==
    [NoRes EXCEPT !.op = op, !.sid = t, !.pos = n, !.val = b,
                  !.cap0 = Len(Parked(t, n)), !.pre = Parked(t, n)]

\* Thread t calls default_allocate_aligned(n, align)
RecyclerAllocate ==
    \E t \in {MainThread}, n \in PoolSizes :
        /\ fault = "none"
        /\ SizeAllowed(t, n)
        /\ FreshBlock(Mach(TRUE)) # NULL \/ Parked(t, n) # <<>>
        /\ LET m == default_allocate_aligned([Mach(TRUE) EXCEPT !.t = t], n)
           IN  /\ blocks' = m.blocks /\ pool' = m.pool /\ fault' = m.fault
               /\ res' = PoolOutcome("pool_allocate", t, n, m.p)
        /\ UNCHANGED <<strs, hooks, ref, nops, env, findVars>>

\* Thread t calls default_deallocate_aligned(p, n, align) on a block some
\* thread obtained with byte count n
RecyclerRelease ==
    \E t \in {MainThread}, b \in ReleaseChoices :
        /\ fault = "none"
        /\ LET m == default_deallocate_aligned([Mach(TRUE) EXCEPT !.t = t], b, blocks[b].req)
           IN  /\ blocks' = m.blocks /\ pool' = m.pool /\ fault' = m.fault
               /\ res' = PoolOutcome("pool_release", t, blocks[b].req, b)
        /\ UNCHANGED <<strs, hooks, ref, nops, env, findVars>>

NextPool == RecyclerAllocate \/ RecyclerRelease
SpecPool == InitPool /\ [][NextPool]_vars

\* ------------------------------------------------------------------------
\* THREAD RUNS: two threads allocating, releasing, and constructing and
\* destroying strings, one call at a time in any interleaving.  A call
\* touches thread-local tables and the (thread-safe) platform allocator
\* only, so a call is one step.
\* ------------------------------------------------------------------------
MaxThreadBlocks == 3
InitThreads ==
    /\ FindIdle
    /\ strs = [sid \in StrIds |-> Dead]
    /\ blocks = [b \in 1..MaxThreadBlocks |-> NoBlock]
    /\ pool = [t \in Threads |-> [i \in 1..Len(POOL_CLASSES) |-> <<>>]]
    /\ hooks = NoHooks /\ fault = "none" /\ res = NoRes
    /\ ref = [sid \in StrIds |-> <<>>] /\ nops = 0 /\ env = [oom |-> FALSE]

\* The blocks live strings own
StringBlocks ==
    {strs[sid].ptr : sid \in {x \in StrIds : strs[x].alive /\ is_heap_allocated(strs[x])}}

\* Thread t calls default_allocate_aligned(MainSize, align)
ThreadAllocate ==
    \E t \in Threads :
        /\ fault = "none"
        /\ FreshBlock(Mach(TRUE)) # NULL \/ Parked(t, MainSize) # <<>>
        /\ LET m == default_allocate_aligned([Mach(TRUE) EXCEPT !.t = t], MainSize)
           IN  /\ blocks' = m.blocks /\ pool' = m.pool /\ fault' = m.fault
               /\ res' = PoolOutcome("pool_allocate", t, MainSize, m.p)
        /\ UNCHANGED <<strs, hooks, ref, nops, env, findVars>>

\* Thread t releases a block that it or the other thread obtained
ThreadRelease ==
    \E t \in Threads, b \in HeldBlocks \ StringBlocks :
        /\ fault = "none"
        /\ LET m == default_deallocate_aligned([Mach(TRUE) EXCEPT !.t = t], b, blocks[b].req)
           IN  /\ blocks' = m.blocks /\ pool' = m.pool /\ fault' = m.fault
               /\ res' = PoolOutcome("pool_release", t, blocks[b].req, b)
        /\ UNCHANGED <<strs, hooks, ref, nops, env, findVars>>

\* The main thread constructs a Heap string
ThreadConstruct ==
    \E t \in {MainThread}, sid \in {1} :
        /\ fault = "none" /\ ~Alive(sid)
        /\ FreshBlock(Mach(TRUE)) # NULL \/ Parked(t, MainSize) # <<>>
        /\ LET m == string_ptr_len([Mach(TRUE) EXCEPT !.t = t], sid,
                                   Pattern(MainSize - 1, Lower), MainSize - 1)
           IN  /\ strs' = m.strs /\ blocks' = m.blocks /\ pool' = m.pool /\ fault' = m.fault
               /\ res' = PoolOutcome("thread_construct", t, MainSize, m.p)
               /\ ref' = [ref EXCEPT ![sid] = Pattern(MainSize - 1, Lower)]
        /\ UNCHANGED <<hooks, nops, env, findVars>>

\* Thread t destroys the string the main thread constructed
ThreadDestroy ==
    \E t \in Threads, sid \in StrIds :
        /\ fault = "none" /\ Alive(sid)
        /\ LET m == destroy([Mach(TRUE) EXCEPT !.t = t], sid)
           IN  /\ strs' = m.strs /\ blocks' = m.blocks /\ pool' = m.pool /\ fault' = m.fault
               /\ res' = PoolOutcome("thread_destroy", t, strs[sid].cap + 1, strs[sid].ptr)
               /\ ref' = [ref EXCEPT ![sid] = <<>>]
        /\ UNCHANGED <<hooks, nops, env, findVars>>

NextThreads == ThreadAllocate \/ ThreadRelease \/ ThreadConstruct \/ ThreadDestroy
SpecThreads == InitThreads /\ [][NextThreads]_vars

\* ------------------------------------------------------------------------
\* SYNCHRONISED STRINGS (include/fl/synchronised_string.hpp): two objects,
\* each a string behind a std::shared_mutex, called by two threads.  A call
\* is three steps: it arrives, it gets its lock(s) and enters the callback,
\* it runs the string operation and releases.  The threads, the mutexes and
\* what the last callback saw are kept in env.
\* ------------------------------------------------------------------------
MaxCalls == 3         \* calls made in one run, by both threads together

ReadOps == {"read"}                                  \* read, size, empty, snapshot
WriteOps == {"push_back", "pop_back", "clear"}       \* write, +=, append, ...
PairOps == {"swap", "assign"}                        \* swap, operator=

\* busy: a write to the object was in progress when the call arrived;
\* after: a write to the object has completed since the call arrived.
IdleThread == [pc |-> "idle", op |-> "none", obj |-> 1, other |-> 1,
               busy |-> FALSE, after |-> FALSE]
FreeMutex == [writers |-> {}, readers |-> {}]
NothingSeen == [t |-> MainThread, op |-> "none", obj |-> 1, torn |-> FALSE,
                busy |-> FALSE, after |-> FALSE, exact |-> TRUE]

\* std::shared_lock lock(_mutex): the mutexes after thread t's attempt,
\* unchanged while it has to wait
shared_lock(mu, t, a) ==
    IF mu[a].writers = {} THEN [mu EXCEPT ![a].readers = @ \cup {t}] ELSE mu

\* std::unique_lock lock(_mutex)
unique_lock(mu, t, a) ==
    IF mu[a] = FreeMutex THEN [mu EXCEPT ![a].writers = {t}] ELSE mu

\* Defect variant of scoped_lock: this object's mutex is locked, then the
\* other's, the first being kept while waiting for the second.
scoped_lock_in_order(mu, t, a, b) ==
    IF mu[a].writers # {t} THEN unique_lock(mu, t, a) ELSE unique_lock(mu, t, b)

\* std::scoped_lock lock(_mutex, other._mutex): both mutexes, and neither
\* is kept while the other cannot be had
scoped_lock(mu, t, a, b) ==
    IF mu[a] = FreeMutex /\ mu[b] = FreeMutex
    THEN [mu EXCEPT ![a].writers = {t}, ![b].writers = {t}]
    ELSE mu

\* The locks thread t's call needs
Locking(mu, t, op, a, b) ==
    IF op \in ReadOps THEN shared_lock(mu, t, a)
    ELSE IF op \in WriteOps THEN unique_lock(mu, t, a)
    ELSE scoped_lock(mu, t, a, b)

HoldsLocks(mu, t, op, a, b) ==
    IF op \in ReadOps THEN t \in mu[a].readers
    ELSE IF op \in WriteOps THEN mu[a].writers = {t}
    ELSE mu[a].writers = {t} /\ mu[b].writers = {t}

\* The destructors of the lock objects
Unlocked(mu, t) ==
    [o \in DOMAIN mu |-> [writers |-> mu[o].writers \ {t}, readers |-> mu[o].readers \ {t}]]

\* The objects a call writes
Written(op, a, b) ==
    IF op \in ReadOps THEN {} ELSE IF op = "swap" THEN {a, b} ELSE {a}

\* The string operation a call runs under its lock(s)
Callback(m, op, a, b) ==
    CASE op = "push_back" -> push_back(m, a, Upper)
      [] op = "pop_back" -> pop_back(m, a)
      [] op = "clear" -> clear(m, a)
      [] op = "swap" -> swap(m, a, b)
      [] op = "assign" -> copy_assign(m, a, b)
      [] OTHER -> m

RefCallback(r, op, a, b) ==
    CASE op = "push_back" -> [r EXCEPT ![a] = Append(@, Upper)]
      [] op = "pop_back" -> [r EXCEPT ![a] = IF @ = <<>> THEN @ ELSE SubSeq(@, 1, Len(@) - 1)]
      [] op = "clear" -> [r EXCEPT ![a] = <<>>]
      [] op = "swap" -> [r EXCEPT ![a] = r[b], ![b] = r[a]]
      [] op = "assign" -> [r EXCEPT ![a] = r[b]]
      [] OTHER -> r

\* synchronised_string(const char*) twice: a short string, and one that
\* fills the Inline buffer
InitSync ==
    /\ FindIdle
    /\ LET m0 == [strs |-> [sid \in StrIds |-> Dead],
                  blocks |-> [b \in BlockIds |-> NoBlock],
                  pool |-> [t \in Threads |-> [i \in 1..Len(POOL_CLASSES) |-> <<>>]],
                  hooks |-> NoHooks, fault |-> "none", ok |-> TRUE, p |-> NULL,
                  t |-> MainThread, oom |-> FALSE, err |-> "none"]
           m1 == string_ptr_len(m0, 1, Pattern(1, Lower), 1)
           m2 == string_ptr_len(m1, 2, Pattern(SSO_CAPACITY, Lower), SSO_CAPACITY)
       IN  /\ strs = m2.strs /\ blocks = m2.blocks /\ pool = m2.pool /\ fault = m2.fault
    /\ hooks = NoHooks /\ res = NoRes /\ nops = 0
    /\ ref = [sid \in StrIds |-> IF sid = 1 THEN Pattern(1, Lower)
                                              ELSE Pattern(SSO_CAPACITY, Lower)]
    /\ env = [oom |-> FALSE,
              mutex |-> [o \in StrIds |-> FreeMutex],
              thr |-> [t \in Threads |-> IdleThread],
              dirty |-> [o \in StrIds |-> FALSE],
              seen |-> NothingSeen]

\* Calls made so far, by both threads together
CallsMade == nops

\* A thread calls a method.  Assignment and swap of an object with itself
\* return at once.
SyncCall ==
    \E t \in Threads, op \in ReadOps \cup WriteOps \cup PairOps, a \in StrIds, b \in StrIds :
        /\ fault = "none"
        /\ env.thr[t].pc = "idle" /\ CallsMade < MaxCalls
        /\ op \notin PairOps => b = a
        /\ env' = [env EXCEPT
                     !.thr[t] = IF op \in PairOps /\ a = b
                                THEN @
                                ELSE [@ EXCEPT !.pc = "lock", !.op = op, !.obj = a, !.other = b,
                                               !.busy = env.dirty[a]]]
        /\ nops' = nops + 1
        /\ UNCHANGED <<strs, blocks, pool, hooks, fault, res, ref, findVars>>

\* The call gets a lock; with all its locks it enters the callback, and a
\* writing callback starts to change its object.
SyncAcquire ==
    \E t \in Threads :
        /\ fault = "none"
        /\ env.thr[t].pc = "lock"
        /\ LET c == env.thr[t]
               mu == Locking(env.mutex, t, c.op, c.obj, c.other)
           IN  /\ mu # env.mutex
               /\ env' = IF HoldsLocks(mu, t, c.op, c.obj, c.other)
                          THEN [env EXCEPT !.mutex = mu, !.thr[t].pc = "in",
                                           !.dirty = [o \in StrIds |->
                                               @[o] \/ o \in Written(c.op, c.obj, c.other)]]
                          ELSE [env EXCEPT !.mutex = mu]
        /\ UNCHANGED <<strs, blocks, pool, hooks, fault, res, ref, nops, findVars>>

\* The callback runs to its end and the locks are released.
SyncFinish ==
    \E t \in Threads :
        /\ fault = "none"
        /\ env.thr[t].pc = "in"
        /\ LET c == env.thr[t]
               m0 == [Mach(TRUE) EXCEPT !.t = t]
               m == Callback(m0, c.op, c.obj, c.other)
               w == Written(c.op, c.obj, c.other)
           IN  /\ strs' = m.strs /\ blocks' = m.blocks /\ pool' = m.pool /\ fault' = m.fault
               /\ ref' = RefCallback(ref, c.op, c.obj, c.other)
               /\ env' = [env EXCEPT
                            !.mutex = Unlocked(@, t),
                            !.thr = [u \in Threads |->
                                       IF u = t THEN IdleThread
                                       ELSE IF @[u].pc # "idle" /\ @[u].obj \in w
                                       THEN [@[u] EXCEPT !.after = TRUE]
                                       ELSE @[u]],
                            !.dirty = [o \in StrIds |-> @[o] /\ o \notin w],
                            !.seen = IF c.op \notin ReadOps THEN NothingSeen
                                     ELSE [t |-> t, op |-> c.op, obj |-> c.obj,
                                           torn |-> env.dirty[c.obj],
                                           busy |-> c.busy, after |-> c.after,
                                           exact |-> Content(m0, c.obj) = ref[c.obj]]]
        /\ UNCHANGED <<hooks, res, nops, findVars>>

NextSync == SyncCall \/ SyncAcquire \/ SyncFinish
SpecSync == InitSync /\ [][NextSync]_vars

\* The same run on a machine whose allocator can run dry
InitOOM == InitStrings(TRUE)
SpecOOM == InitOOM /\ [][Next]_vars


\* ------------------------------------------------------------------------
\* Reference: the brute-force scan
\* ------------------------------------------------------------------------
OccursAt(h, x, i) == i + Len(x) <= h.n /\ MemEq(h, i, x, Len(x))

BruteFind(h, x, p) ==
    LET hits == {i \in p..h.n : OccursAt(h, x, i)}
    IN  IF hits = {} THEN NPOS
        ELSE CHOOSE i \in hits : \A j \in hits : i <= j

\* ------------------------------------------------------------------------
\* Claims about the search
\* ------------------------------------------------------------------------
\* C1: find(x, p) returns the smallest index i >= p at which x occurs wholly
\* inside the string, or npos when there is none: the result of a brute-force
\* scan, in every dispatch tier.
C1_FindIsBruteForce ==
    (entry = "find" /\ fpc = "done") => found = BruteFind(hay, needle, startPos)

\* C2: two_way::search with a needle of 9 bytes or more returns the leftmost
\* occurrence of the needle in the haystack, or null when there is none.
C2_SearchIsLeftmost ==
    (entry = "search" /\ fpc = "done" /\ tw.m > ShortNeedleMax)
        => found = BruteFind(hay, needle, 0)

\* ------------------------------------------------------------------------
\* Storage claims
\* ------------------------------------------------------------------------
\* The representation invariants of one live string
Valid(sid) ==
    LET s == strs[sid]
    IN  /\ s.flags \in {0, HEAP_ALLOCATED_FLAG}
        /\ s.size <= capacity(s)
        /\ data_read(Mach(TRUE), sid, s.size, 1) = <<0>>
        /\ IF is_heap_allocated(s)
           THEN s.ptr \in BlockIds /\ s.cap >= 0
           ELSE s.size <= SSO_CAPACITY /\ \A i \in 1..(s.size + 1) : s.sso[i] # JUNK

\* C3: after every constructor and every mutating operation, each live string
\* has size <= capacity, the terminator 0 at index size of its active buffer,
\* exactly the variant its heap flag selects in use, and size <= 23 when Inline.
C3_Invariants == \A sid \in StrIds : Alive(sid) => Valid(sid)

\* a replace has just taken an Inline string to the Heap, next to another
\* live string
C3_Witness ==
    /\ res.op = "replace" /\ Len(res.pre) <= SSO_CAPACITY
    /\ Alive(res.sid) /\ is_heap_allocated(strs[res.sid])
    /\ \E o \in StrIds : o # res.sid /\ Alive(o)

\* C4: after any sequence of operations the size and bytes of every live
\* string equal those of the reference byte sequence put through the same
\* operations.
C4_RoundTrip ==
    \A sid \in StrIds :
        Alive(sid) => strs[sid].size = Len(ref[sid]) /\ Content(Mach(TRUE), sid) = ref[sid]

\* an erase has just brought a Heap string of 24 bytes or more below 24
C4_Witness ==
    /\ res.op = "erase" /\ Len(res.pre) >= SSO_THRESHOLD
    /\ Alive(res.sid) /\ is_heap_allocated(strs[res.sid])
    /\ strs[res.sid].size < SSO_THRESHOLD /\ strs[res.sid].size > 0
    /\ Content(Mach(TRUE), res.sid) = ref[res.sid]

\* The live strings whose heap pointer is block b
Owners(b) ==
    {sid \in StrIds : Alive(sid) /\ is_heap_allocated(strs[sid]) /\ strs[sid].ptr = b}

\* The machine after every live string has been destroyed
RECURSIVE DestroyAll(_, _)
DestroyAll(m, sids) ==
    IF sids = {} THEN m
    ELSE LET sid == CHOOSE x \in sids : \A y \in sids : x <= y
         IN  DestroyAll(IF m.strs[sid].alive THEN destroy(m, sid) ELSE m, sids \ {sid})

\* C5: every heap buffer obtained by a string is released exactly once: no
\* block is released twice, the block of a live Heap string is held and has
\* that string as its only owner, no held block is without an owner, and
\* destroying all live strings leaves no block held and releases none twice.
C5_ReleasedOnce ==
    /\ fault # "double_release"
    /\ \A sid \in StrIds :
          (Alive(sid) /\ is_heap_allocated(strs[sid]))
              => (strs[sid].ptr \in BlockIds /\ blocks[strs[sid].ptr].st = "held")
    /\ \A b \in BlockIds :
          /\ Cardinality(Owners(b)) <= 1
          /\ blocks[b].st = "held" => Owners(b) # {}
    /\ LET m == DestroyAll(Mach(TRUE), StrIds)
       IN  m.fault = "none" /\ \A b \in BlockIds : m.blocks[b].st # "held"

\* the last live string, a Heap one, has just been destroyed
C5_Witness ==
    /\ res.op = "destroy" /\ Len(res.pre) >= SSO_THRESHOLD
    /\ \A sid \in StrIds : ~Alive(sid)
    /\ \E b \in BlockIds : blocks[b].st \in {"pooled", "freed"}
    /\ \A b \in BlockIds : blocks[b].st # "held"

\* What the moved-from string may be put through afterwards
AfterMove(m, a) ==
    {destroy(m, a), assign(m, a, Pattern(70, Lower), 70),
     append(m, a, Pattern(30, Lower), 30)}

\* C6: after B is move-constructed or move-assigned from A, B holds A's
\* previous bytes and size, A is an empty Inline string with its terminator
\* at index 0, and destroying, reassigning or appending to A neither faults
\* nor releases or changes the buffer B owns.
C6_MoveValidity ==
    (res.op \in {"construct_move", "move_assign"} /\ res.sid # res.other) =>
        LET m == Mach(TRUE)
        IN  /\ Alive(res.sid) /\ Alive(res.other)
            /\ strs[res.sid].size = Len(res.opre)
            /\ Content(m, res.sid) = res.opre
            /\ strs[res.other].size = 0
            /\ ~is_heap_allocated(strs[res.other])
            /\ strs[res.other].sso[1] = 0
            /\ \A m2 \in AfterMove(m, res.other) :
                  /\ m2.fault = "none"
                  /\ Content(m2, res.sid) = res.opre
                  /\ is_heap_allocated(strs[res.sid])
                        => m2.blocks[strs[res.sid].ptr].st = "held"

\* a Heap string has just been move-assigned into another Heap string
C6_Witness ==
    /\ res.op = "move_assign" /\ res.sid # res.other
    /\ Len(res.opre) >= SSO_THRESHOLD /\ Len(res.pre) >= SSO_THRESHOLD
    /\ is_heap_allocated(strs[res.sid]) /\ Content(Mach(TRUE), res.sid) = res.opre

\* C7: every released block went back through the path that produced it,
\* with the byte count it was requested or obtained with, also when hooks
\* are installed between its allocation and its release.
C7_SamePathSameSize ==
    \A b \in BlockIds :
        blocks[b].st \in {"pooled", "freed"} =>
            /\ blocks[b].relBy = blocks[b].by
            /\ blocks[b].relN \in {blocks[b].req, blocks[b].len}

\* C8: an operation under which the allocator returned no block ends with an
\* out-of-memory error for the caller, without a write through the missing
\* buffer and without a null heap pointer recorded in a string.
C8_OomPropagates ==
    res.oom =>
        /\ res.err = "bad_alloc"
        /\ fault = "none"
        /\ \A sid \in StrIds :
              (Alive(sid) /\ is_heap_allocated(strs[sid])) => strs[sid].ptr # NULL

\* C9: insert, erase and replace called with pos > size() fail with an
\* out-of-range error and leave content, size and capacity as they were.
C9_OutOfRangeMutators ==
    (/\ res.op \in {"insert", "insert_fill", "erase", "replace", "replace_fill"}
     /\ res.pos > Len(res.pre)) =>
        /\ res.err = "out_of_range"
        /\ Content(Mach(TRUE), res.sid) = res.pre
        /\ capacity(strs[res.sid]) = res.cap0

\* C10: at(pos) returns the byte at index pos for pos < size() and fails
\* with an out-of-range error for pos >= size(), Inline or Heap, and leaves
\* the string as it was.
C10_At ==
    res.op = "at" =>
        /\ res.pos < Len(ref[res.sid])
              => (res.err = "none" /\ res.val = ref[res.sid][res.pos + 1])
        /\ res.pos >= Len(ref[res.sid]) => res.err = "out_of_range"
        /\ Content(Mach(TRUE), res.sid) = res.pre
        /\ capacity(strs[res.sid]) = res.cap0

\* at(size()) on a Heap string has just failed
C10_Witness ==
    /\ res.op = "at" /\ is_heap_allocated(strs[res.sid])
    /\ res.pos = strs[res.sid].size /\ res.pos > 0
    /\ res.err = "out_of_range"

\* What a string may be put through after it took part in a copy
LaterOps(m, x) ==
    {destroy(m, x), clear(m, x), erase(m, x, 0, 1),
     assign(m, x, Pattern(70, Lower), 70), append(m, x, Pattern(30, Lower), 30),
     resize(m, x, 100, Upper)}

\* x keeps the bytes `was` whatever y is put through
Independent(m, x, y, was) ==
    \A m2 \in LaterOps(m, y) :
        /\ m2.fault = "none"
        /\ Str(m2, x).size = Len(was)
        /\ Content(m2, x) = was
        /\ is_heap_allocated(Str(m2, x)) => m2.blocks[Str(m2, x).ptr].st = "held"

CopyDone == res.op \in {"construct_copy", "copy_assign"} /\ res.sid # res.other

\* C11 (as stated): after B is copy-constructed or copy-assigned from a Heap
\* string A, B is a Heap string whose buffer is not A's and was requested for
\* exactly A's length plus the terminator.
C11_FreshExactBuffer ==
    (CopyDone /\ is_heap_allocated(strs[res.other])) =>
        /\ is_heap_allocated(strs[res.sid])
        /\ strs[res.sid].ptr # strs[res.other].ptr
        /\ blocks[strs[res.sid].ptr].req = Len(res.opre) + 1

\* C11 (amended): after B is copy-constructed or copy-assigned from A, B has
\* A's size and bytes and A keeps them; B's storage is never A's buffer; a
\* copy-constructed B of a Heap A has a buffer requested for exactly A's
\* length plus the terminator, while a copy-assigned B keeps its own buffer
\* when its capacity suffices; whatever either string is put through next
\* (mutation or destruction), the other keeps its size and bytes.
C11_DeepCopy ==
    CopyDone =>
        LET m == Mach(TRUE)
            a == res.other
            b == res.sid
        IN  /\ strs[b].size = Len(res.opre) /\ Content(m, b) = res.opre
            /\ strs[a].size = Len(res.opre) /\ Content(m, a) = res.opre
            /\ (is_heap_allocated(strs[a]) /\ is_heap_allocated(strs[b]))
                    => strs[a].ptr # strs[b].ptr
            /\ (res.op = "construct_copy" /\ is_heap_allocated(strs[a]))
                    => /\ is_heap_allocated(strs[b])
                       /\ blocks[strs[b].ptr].req = Len(res.opre) + 1
            /\ (res.op = "copy_assign" /\ res.cap0 >= Len(res.opre) /\ res.cap0 > SSO_CAPACITY)
                    => capacity(strs[b]) = res.cap0
            /\ Independent(m, b, a, res.opre)
            /\ Independent(m, a, b, res.opre)

\* a Heap string has just been copy-assigned into a Heap string that had
\* room for it, and kept its buffer
C11_Witness ==
    /\ res.op = "copy_assign" /\ res.sid # res.other
    /\ is_heap_allocated(strs[res.other]) /\ is_heap_allocated(strs[res.sid])
    /\ Len(res.opre) >= SSO_THRESHOLD
    /\ blocks[strs[res.sid].ptr].req # Len(res.opre) + 1
    /\ Content(Mach(TRUE), res.sid) = res.opre

\* The three ways of appending the single byte ch
AppendOne(m, sid, ch) ==
    {append_char(m, sid, ch), append(m, sid, <<ch>>, 1), push_back(m, sid, ch)}

\* C12: a string built from exactly 23 bytes is Inline with capacity >= 23,
\* and appending one byte to it by append(char), append(ptr, 1) or push_back
\* gives the 23 bytes followed by the new byte, size 24, capacity >= 24 and
\* the Heap representation.
C12_Boundary ==
    /\ \A sid \in StrIds :
          (/\ Alive(sid)
           /\ res.op \in {"none", "construct", "construct_fill"}
           /\ res.op # "none" => res.sid = sid
           /\ Len(ref[sid]) = SSO_CAPACITY) =>
              LET m == Mach(TRUE)
              IN  /\ ~is_heap_allocated(strs[sid])
                  /\ capacity(strs[sid]) >= SSO_CAPACITY
                  /\ \A m2 \in AppendOne(m, sid, B) :
                        /\ m2.fault = "none"
                        /\ Str(m2, sid).size = SSO_THRESHOLD
                        /\ Content(m2, sid) = Append(ref[sid], B)
                        /\ data_read(m2, sid, SSO_THRESHOLD, 1) = <<0>>
                        /\ is_heap_allocated(Str(m2, sid))
                        /\ capacity(Str(m2, sid)) >= SSO_THRESHOLD
    /\ (res.op \in {"push_back", "append"} /\ Len(res.pre) = SSO_CAPACITY
            /\ res.cap0 = SSO_CAPACITY /\ Len(ref[res.sid]) = SSO_THRESHOLD) =>
          /\ is_heap_allocated(strs[res.sid])
          /\ capacity(strs[res.sid]) >= SSO_THRESHOLD
          /\ strs[res.sid].size = SSO_THRESHOLD
          /\ Content(Mach(TRUE), res.sid) = Append(res.pre, ref[res.sid][SSO_THRESHOLD])

\* push_back has just taken a 23-byte Inline string to 24 bytes
C12_Witness ==
    /\ res.op = "push_back" /\ Len(res.pre) = SSO_CAPACITY /\ res.cap0 = SSO_CAPACITY
    /\ is_heap_allocated(strs[res.sid]) /\ strs[res.sid].size = SSO_THRESHOLD
    /\ SubSeq(Content(Mach(TRUE), res.sid), 1, SSO_CAPACITY) = res.pre

\* The smallest value of the form 2^k - 1 that is >= r, searched from v up
RECURSIVE Pow2Minus1From(_, _)
Pow2Minus1From(r, v) == IF v >= r THEN v ELSE Pow2Minus1From(r, 2 * v + 1)

\* The capacity the growth rule asks for when r bytes are required
RequestedCapacity(r) == IF r < 32 THEN 32 ELSE Pow2Minus1From(r, 0)

\* String sid of m2 has grown for r required bytes by the rule applied to g,
\* and holds `expect`
Grown(m2, sid, r, g, expect) ==
    LET s == Str(m2, sid)
    IN  /\ m2.fault = "none"
        /\ is_heap_allocated(s)
        /\ capacity(s) >= r
        /\ capacity(s) >= RequestedCapacity(g)
        /\ capacity(s) = pool_alloc_usable_capacity(RequestedCapacity(g) + 1)
        /\ m2.blocks[s.ptr].len = capacity(s) + 1
        /\ s.size = Len(expect)
        /\ Content(m2, sid) = expect

\* Growth of the live string sid by each growing operation, where f(r) is
\* the size the rule is applied to by insert, replace and resize
GrowthRule(sid, f(_)) ==
    LET m == Mach(TRUE)
        s == strs[sid]
        c == Content(m, sid)
        x == Pattern(30, Lower)
    IN  /\ \A r \in ReserveCaps :
              r > capacity(s) => Grown(reserve(m, sid, r), sid, r, r, c)
        /\ s.size + 30 > capacity(s) =>
              Grown(append(m, sid, x, 30), sid, s.size + 30, s.size + 30, c \o x)
        /\ s.size + 30 > capacity(s) =>
              Grown(insert(m, sid, 0, x, 30), sid, s.size + 30, f(s.size + 30), x \o c)
        /\ (s.size >= 2 /\ s.size + 28 > capacity(s)) =>
              Grown(replace(m, sid, 0, 2, x, 30), sid, s.size + 28, f(s.size + 28),
                    x \o SubSeq(c, 3, Len(c)))
        /\ \A r \in ResizeTargets :
              r > capacity(s) =>
                  Grown(resize(m, sid, r, Upper), sid, r, f(r), RefResize(c, r, Upper))

AsRequired(r) == r
WithHeadroom(r) == r + (r \div 2)

\* C13 (as stated): growth to a required size r by append, insert, replace,
\* resize or reserve(r) leaves the content as the operation defines it and
\* capacity() >= r, where capacity() is the recycler-rounded usable size of a
\* block requested for 32 (r < 32) or the smallest 2^k - 1 >= r.
C13_GrowthRule == \A sid \in StrIds : Alive(sid) => GrowthRule(sid, AsRequired)

\* C13 (amended): as C13, except that insert, replace and resize apply the
\* rule to r + r/2 instead of r; a string that has just grown has a capacity
\* of its block's size minus 1, at least its size.
C13_GrowthRuleHeadroom ==
    /\ \A sid \in StrIds : Alive(sid) => GrowthRule(sid, WithHeadroom)
    /\ (/\ res.op \in {"append", "append_fill", "push_back", "insert", "insert_fill",
                        "replace", "replace_fill", "resize", "reserve"}
        /\ capacity(strs[res.sid]) > res.cap0) =>
            /\ is_heap_allocated(strs[res.sid])
            /\ blocks[strs[res.sid].ptr].len = capacity(strs[res.sid]) + 1
            /\ capacity(strs[res.sid]) >= strs[res.sid].size
            /\ capacity(strs[res.sid]) >= RequestedCapacity(strs[res.sid].size)

\* resize(100) has just grown a string: the rule was applied to 150
C13_Witness ==
    /\ res.op = "resize" /\ res.cap0 < 100 /\ strs[res.sid].size = 100
    /\ capacity(strs[res.sid]) = pool_alloc_usable_capacity(RequestedCapacity(150) + 1)
    /\ capacity(strs[res.sid]) # pool_alloc_usable_capacity(RequestedCapacity(100) + 1)

\* String a of ma and string b of mb report the same size and bytes
SameString(ma, a, mb, b) ==
    /\ ma.fault = "none" /\ mb.fault = "none"
    /\ Str(ma, a).size = Str(mb, b).size
    /\ Content(ma, a) = Content(mb, b)
    /\ data_read(ma, a, Str(ma, a).size, 1) = data_read(mb, b, Str(mb, b).size, 1)

\* Strings a and b of m are equal and stay equal under each mutator
EquivalentUnderMutators(m, a, b) ==
    LET n == Str(m, a).size
        x == Pattern(30, Lower)
    IN  /\ SameString(m, a, m, b)
        /\ SameString(append(m, a, x, 30), a, append(m, b, x, 30), b)
        /\ SameString(append(m, a, x, 1), a, append(m, b, x, 1), b)
        /\ SameString(push_back(m, a, B), a, push_back(m, b, B), b)
        /\ SameString(pop_back(m, a), a, pop_back(m, b), b)
        /\ \A pos \in Positions(n) :
              /\ SameString(insert(m, a, pos, x, 30), a, insert(m, b, pos, x, 30), b)
              /\ SameString(insert(m, a, pos, x, 1), a, insert(m, b, pos, x, 1), b)
              /\ SameString(erase(m, a, pos, 1), a, erase(m, b, pos, 1), b)
              /\ SameString(erase(m, a, pos, NPOS), a, erase(m, b, pos, NPOS), b)
              /\ SameString(replace(m, a, pos, 2, x, 30), a, replace(m, b, pos, 2, x, 30), b)
              /\ SameString(replace(m, a, pos, 2, x, 1), a, replace(m, b, pos, 2, x, 1), b)
        /\ \A r \in ResizeTargets \cup {0} :
              SameString(resize(m, a, r, Upper), a, resize(m, b, r, Upper), b)
        /\ \A len \in AssignLens :
              SameString(assign(m, a, Pattern(len, Lower), len), a,
                         assign(m, b, Pattern(len, Lower), len), b)
        /\ SameString(clear(m, a), a, clear(m, b), b)

\* C14: a Heap string of 0..23 bytes and an Inline string built from the
\* same bytes report the same size and bytes, and stay equal in size and
\* bytes after the same mutator (append, insert, erase, replace, resize,
\* assign, clear) is applied to both.
C14_RepresentationEquivalence ==
    \A a \in StrIds, b \in StrIds :
        (/\ Alive(a) /\ ~Alive(b)
         /\ is_heap_allocated(strs[a]) /\ strs[a].size <= SSO_CAPACITY) =>
            LET m0 == Mach(TRUE)
                m == string_ptr_len(m0, b, Content(m0, a), strs[a].size)
            IN  /\ ~is_heap_allocated(Str(m, b))
                /\ EquivalentUnderMutators(m, a, b)

\* a mutator has just acted on a Heap string of fewer than 23 bytes (made
\* so by reserve or by a shrinking operation) and left it Heap and short
C14_Witness ==
    /\ res.op \in {"insert", "replace", "append", "assign"}
    /\ Len(res.pre) < SSO_CAPACITY /\ res.cap0 > SSO_CAPACITY
    /\ is_heap_allocated(strs[res.sid]) /\ strs[res.sid].size <= SSO_CAPACITY
    /\ strs[res.sid].size # Len(res.pre)
    /\ Content(Mach(TRUE), res.sid) = ref[res.sid]

\* Block b is parked in no table
NotParked(b) ==
    \A t \in Threads, i \in 1..Len(POOL_CLASSES) :
        \A k \in 1..Len(pool[t][i]) : pool[t][i][k] # b

\* C15: within one thread each size class of the recycler is a LIFO stack of
\* depth at most 8: allocate on a class with a non-zero count returns the
\* block released last and decrements the count; allocate on an empty class
\* obtains a block of the full class size from the platform; release pushes
\* the block when the count is below 8 and otherwise forwards it to the
\* platform deallocator leaving the stack as it was; every count is in 0..8.
C15_RecyclerLifo ==
    /\ \A t \in Threads, i \in 1..Len(POOL_CLASSES) : Len(pool[t][i]) <= POOL_SLAB_DEPTH
    /\ (res.op = "pool_allocate" /\ pool_class_index(res.pos) >= 1) =>
          /\ fault = "none"
          /\ blocks[res.val].st = "held"
          /\ IF res.cap0 > 0
             THEN /\ res.val = res.pre[res.cap0]
                  /\ Parked(res.sid, res.pos) = SubSeq(res.pre, 1, res.cap0 - 1)
             ELSE /\ Parked(res.sid, res.pos) = <<>>
                  /\ NotParked(res.val)
                  /\ blocks[res.val].bytes = <<>>
                  /\ blocks[res.val].len = POOL_CLASSES[pool_class_index(res.pos)]
    /\ (res.op = "pool_release" /\ pool_class_index(res.pos) >= 1) =>
          /\ fault = "none"
          /\ IF res.cap0 < POOL_SLAB_DEPTH
             THEN /\ Parked(res.sid, res.pos) = Append(res.pre, res.val)
                  /\ blocks[res.val].st = "pooled"
             ELSE /\ Parked(res.sid, res.pos) = res.pre
                  /\ NotParked(res.val)
                  /\ blocks[res.val].st = "freed"

\* a block has just been released to a class that already held 8: it went
\* to the platform
C15_Witness ==
    /\ res.op = "pool_release" /\ res.cap0 = POOL_SLAB_DEPTH
    /\ Len(Parked(res.sid, res.pos)) = POOL_SLAB_DEPTH
    /\ blocks[res.val].st = "freed"
\* ------------------------------------------------------------------------
\* C16
\* ------------------------------------------------------------------------
\* How often block b is parked in the tables of all threads
RECURSIVE CountIn(_, _)
CountIn(stack, b) ==
    IF stack = <<>> THEN 0
    ELSE (IF stack[1] = b THEN 1 ELSE 0) + CountIn(SubSeq(stack, 2, Len(stack)), b)

RECURSIVE ParkedCount(_, _, _)
ParkedCount(t, i, b) ==
    IF i = 0 THEN 0 ELSE CountIn(pool[t][i], b) + ParkedCount(t, i - 1, b)

TimesParked(b) ==
    ParkedCount(MainThread, Len(POOL_CLASSES), b) + ParkedCount(MainThread + 1, Len(POOL_CLASSES), b)

OnePlace ==
    /\ fault = "none"
    /\ \A b \in DOMAIN blocks :
          /\ TimesParked(b) = (IF blocks[b].st = "pooled" THEN 1 ELSE 0)
          /\ Cardinality(Owners(b)) <= 1
          /\ Owners(b) # {} => blocks[b].st = "held"

\* The step that has just been taken by thread res'.sid
OwnTableOnly ==
    /\ \A u \in Threads \ {res'.sid} : pool'[u] = pool[u]
    /\ res'.op \in {"pool_allocate", "thread_construct"} =>
          /\ res'.val # NULL
          /\ blocks[res'.val].st # "held"
          /\ blocks'[res'.val].st = "held"
          /\ blocks[res'.val].st = "pooled" <=>
                (res'.pre # <<>> /\ res'.val = res'.pre[Len(res'.pre)])

\* C16: in every interleaving of allocate and release calls by two threads,
\* with a string constructed on one thread and destroyed on either, a call
\* changes only the calling thread's table, every block is at every moment
\* held by one owner or parked exactly once in exactly one table (never
\* both), and allocate returns a block nobody holds: a new one, or the one
\* on top of the caller's own table.
C16_PoolDisjoint == []OnePlace /\ [][OwnTableOnly]_vars

\* The second thread has just destroyed the string the main thread
\* constructed; its buffer is parked on the second thread's table while
\* the main thread's table holds another block.
C16_Witness ==
    /\ res.op = "thread_destroy" /\ res.sid = MainThread + 1
    /\ Parked(MainThread + 1, MainSize) # <<>>
    /\ Parked(MainThread + 1, MainSize)[Len(Parked(MainThread + 1, MainSize))] = res.val
    /\ Parked(MainThread, MainSize) # <<>>

\* ------------------------------------------------------------------------
\* C17
\* ------------------------------------------------------------------------
SameMachine(ma, mb) ==
    ma.strs = mb.strs /\ ma.blocks = mb.blocks /\ ma.pool = mb.pool /\ ma.fault = mb.fault

\* Block b, held in m, has been handed back exactly once in m1
ReleasedOnce(m, m1, b, n) ==
    /\ m.blocks[b].st = "held"
    /\ m1.fault = "none"
    /\ m1.blocks[b].st \in {"pooled", "freed"}
    /\ m1.blocks[b].relN = n

\* shrink_to_fit called on string sid of machine m; `tight` says whether a
\* Heap string whose size() equals its capacity() is expected to get a new
\* buffer as well.
ShrinkRule(m, sid, m1, m2, tight) ==
    /\ m1.fault = "none"
    /\ Str(m1, sid).size = Str(m, sid).size
    /\ Content(m1, sid) = Content(m, sid)
    /\ SameMachine(m1, m2)
    /\ ~is_heap_allocated(Str(m, sid)) => SameMachine(m, m1)
    /\ is_heap_allocated(Str(m, sid)) /\ Str(m, sid).size <= SSO_CAPACITY =>
          /\ ~is_heap_allocated(Str(m1, sid))
          /\ ReleasedOnce(m, m1, Str(m, sid).ptr, Str(m, sid).cap + 1)
    /\ is_heap_allocated(Str(m, sid)) /\ Str(m, sid).size > SSO_CAPACITY =>
          /\ is_heap_allocated(Str(m1, sid))
          /\ capacity(Str(m1, sid)) >= Str(m1, sid).size
          /\ IF tight \/ Str(m, sid).size < Str(m, sid).cap
             THEN /\ ReleasedOnce(m, m1, Str(m, sid).ptr, Str(m, sid).cap + 1)
                  /\ Str(m1, sid).ptr # Str(m, sid).ptr
                  /\ m1.blocks[Str(m1, sid).ptr].st = "held"
             ELSE SameMachine(m, m1)

ShrinkCalls(tight) ==
    fault = "none" =>
        \A sid \in StrIds :
            Alive(sid) /\ ~(tight /\ res.op = "shrink_to_fit" /\ res.sid = sid) =>
                ShrinkRule(Mach(TRUE), sid, shrink_to_fit(Mach(TRUE), sid),
                           shrink_to_fit(shrink_to_fit(Mach(TRUE), sid), sid), tight)

\* C17 as stated: shrink_to_fit keeps size() and the bytes; a Heap string
\* of at most 23 bytes becomes Inline and its buffer is released exactly
\* once; every longer Heap string (unless shrink_to_fit was the call just
\* before) keeps capacity() >= size() and has its old buffer released
\* exactly once; an Inline string, and a second call in a row, change
\* nothing.
C17_ShrinkToFit == ShrinkCalls(TRUE)

\* C17, amended: as above, but a longer Heap string has its old buffer
\* released exactly once only when size() < capacity(); when size() equals
\* capacity(), whatever the call before was, shrink_to_fit changes nothing.
C17_ShrinkToFitWhenSlack ==
    /\ ShrinkCalls(FALSE)
    /\ res.op = "shrink_to_fit" /\ fault = "none" =>
          /\ Content(Mach(TRUE), res.sid) = res.pre
          /\ capacity(strs[res.sid]) >= strs[res.sid].size

\* shrink_to_fit has just moved a Heap string of more than 23 bytes to a
\* tighter buffer.
C17_Witness ==
    /\ res.op = "shrink_to_fit" /\ fault = "none"
    /\ is_heap_allocated(strs[res.sid])
    /\ strs[res.sid].size > SSO_CAPACITY
    /\ strs[res.sid].cap = strs[res.sid].size
    /\ res.cap0 > strs[res.sid].cap

\* ------------------------------------------------------------------------
\* C18
\* ------------------------------------------------------------------------
\* The needle the caller passed, without a C-string's terminator
NeedleBytes ==
    IF entry = "find_cstr" /\ needle # <<>> /\ needle[Len(needle)] = 0
    THEN SubSeq(needle, 1, Len(needle) - 1)
    ELSE needle

\* C18: through the string_view, fl::string and C-string overloads alike,
\* find with an empty needle returns start_pos when start_pos <= size()
\* (start_pos == size() included) and npos when start_pos > size(), and
\* find with a non-empty needle returns npos when start_pos >= size().
C18_FindEdges ==
    (fpc = "done" /\ entry \in {"find", "find_cstr", "find_string"}
        /\ ~(entry = "find_cstr" /\ needle = NullCStr)) =>
        /\ NeedleBytes = <<>> =>
              found = (IF startPos <= hay.n THEN startPos ELSE NPOS)
        /\ NeedleBytes # <<>> /\ startPos >= hay.n => found = NPOS

\* The C-string overload has answered a search for "" that starts at the
\* end of a non-empty string.
C18_Witness ==
    /\ fpc = "done" /\ entry = "find_cstr"
    /\ needle = CStr(<<>>)
    /\ hay.n > 0 /\ startPos = hay.n
    /\ found = startPos

\* ------------------------------------------------------------------------
\* C19
\* ------------------------------------------------------------------------
\* Byte comparisons of one iteration of the matching loop in state t: those
\* of the right scan and, when the right part matched, of the left scan.
IterComparisons(h, x, t) ==
    LET off == t.base + t.pos
        i0 == IF t.periodic THEN Max(t.l + 1, t.memory) ELSE t.l + 1
        j0 == IF t.periodic THEN t.memory ELSE 0
        i == RightScan(h, off, x, t.m, i0)
        j == LeftScan(h, off, x, t.l, j0)
    IN  (i - i0) + (IF i < t.m THEN 1 ELSE (j - j0) + (IF j <= t.l THEN 1 ELSE 0))

\* Byte comparisons of the matching loop from state t to its return
RECURSIVE LoopComparisons(_, _, _)
LoopComparisons(h, x, t) ==
    IF t.pos > t.n - t.m THEN 0
    ELSE LET r == IF t.periodic THEN PeriodicIter(h, x, t) ELSE NonPeriodicIter(h, x, t)
         IN  IterComparisons(h, x, t)
             + (IF r.ret # NoReturn THEN 0 ELSE LoopComparisons(h, x, r.t))

\* The haystack is a run of 'a' with, at most, the needle planted in it once
RunHaystack ==
    /\ hay.fill = A
    /\ \/ hay.plant = needle /\ hay.at + Len(needle) <= hay.n
       \/ hay.at >= hay.n

\* C19: on a haystack a^n, with or without the needle a^(k-1) b planted in
\* it once, two_way::search with that needle (of 9 bytes or more) returns
\* the leftmost occurrence, or null when there is none, and its matching
\* loop makes at most 3 * (n + k) byte comparisons.
C19_RunNeedleLinear ==
    (entry = "search" /\ fpc = "done" /\ tw.m > ShortNeedleMax
        /\ needle = RunNeedle(tw.m - 1) /\ RunHaystack) =>
        /\ found = BruteFind(hay, needle, 0)
        /\ LoopComparisons(hay, needle, [tw EXCEPT !.pos = 0, !.memory = 0])
              <= 3 * (tw.n + tw.m)

\* ------------------------------------------------------------------------
\* C20
\* ------------------------------------------------------------------------
\* Threads whose callback is running and writes, or reads, object o
InWriting(o) ==
    {t \in Threads : env.thr[t].pc = "in"
                        /\ o \in Written(env.thr[t].op, env.thr[t].obj, env.thr[t].other)}
InReading(o) ==
    {t \in Threads : env.thr[t].pc = "in"
                        /\ \/ env.thr[t].op \in ReadOps /\ env.thr[t].obj = o
                           \/ env.thr[t].op = "assign" /\ env.thr[t].other = o}

SyncSafe ==
    /\ fault = "none"
    /\ \A o \in StrIds :
          /\ Cardinality(InWriting(o)) <= 1
          /\ InWriting(o) # {} => InReading(o) = {}
          /\ InWriting(o) = {} => Content(Mach(TRUE), o) = ref[o]
    /\ env.seen.op \in ReadOps =>
          /\ ~env.seen.torn /\ env.seen.exact
          /\ env.seen.busy => env.seen.after

\* Some thread can go on: call, get a lock, or finish its callback
CanStep ==
    \E t \in Threads :
        \/ env.thr[t].pc = "idle" /\ CallsMade < MaxCalls
        \/ env.thr[t].pc = "in"
        \/ /\ env.thr[t].pc = "lock"
           /\ Locking(env.mutex, t, env.thr[t].op, env.thr[t].obj, env.thr[t].other) # env.mutex

AllReturned ==
    /\ CallsMade = MaxCalls
    /\ \A t \in Threads : env.thr[t].pc = "idle"

\* C20: in every interleaving of two threads calling read, the writing
\* methods, swap and assignment on two synchronised strings, a writing
\* callback never overlaps another callback on its object (reading ones may
\* overlap), no call aborts, what a reader sees is the committed content,
\* and a reader that arrived during a write sees that write completed; and
\* no call deadlocks, whatever the order in which two calls name the two
\* objects: as long as a call has not returned, some thread can take a
\* step (every step advances a call, so the calls all return).
C20_Serialised == SyncSafe /\ (AllReturned \/ CanStep)

\* A reader that arrived while a write was in progress has run its callback.
C20_Witness ==
    /\ env.seen.op \in ReadOps /\ env.seen.busy
    /\ env.seen.after /\ env.seen.exact

\* ------------------------------------------------------------------------
\* C21
\* ------------------------------------------------------------------------
\* u < v in the lexicographic order of bytes, or of bytes reversed
RECURSIVE SeqLess(_, _, _)
SeqLess(u, v, rev) ==
    IF v = <<>> THEN FALSE
    ELSE IF u = <<>> THEN TRUE
    ELSE IF u[1] # v[1] THEN (IF rev THEN u[1] > v[1] ELSE u[1] < v[1])
    ELSE SeqLess(SubSeq(u, 2, Len(u)), SubSeq(v, 2, Len(v)), rev)

Suffix(x, i) == SubSeq(x, i + 1, Len(x))

\* The maximal suffix of x in that order
MaximalSuffix(x, rev) ==
    Suffix(x, CHOOSE i \in 0..(Len(x) - 1) :
                  \A j \in 0..(Len(x) - 1) : j # i => SeqLess(Suffix(x, j), Suffix(x, i), rev))

\* The smallest period of u
PeriodOf(u) ==
    CHOOSE p \in 1..Len(u) :
        /\ \A t \in 1..(Len(u) - p) : u[t] = u[t + p]
        /\ \A q \in 1..(p - 1) : \E t \in 1..(Len(u) - q) : u[t] # u[t + q]

\* The reverse ordering was kept
KeptReverse(x) == max_suffix(x, Len(x)).i < max_suffix_rev(x, Len(x)).i

\* C21: after preprocessing a needle of 9 bytes or more, the right part
\* needle[l+1..m-1] is non-empty, it is the maximal suffix of the needle in
\* the ordering that was kept, per is its period, and the shifts made so
\* far (i - l after a right-part mismatch, l + 1 after a left-part mismatch
\* in the non-periodic case) have passed over no occurrence.
C21_CriticalFactorization ==
    (entry = "search" /\ fpc = "loop") =>
        /\ tw.l + 1 < tw.m
        /\ Suffix(needle, tw.l + 1) = MaximalSuffix(needle, KeptReverse(needle))
        /\ tw.period = PeriodOf(Suffix(needle, tw.l + 1))
        /\ \A p \in 0..(Min(tw.pos, tw.n - tw.m + 1) - 1) :
              ~OccursAt(hay, needle, tw.base + p)

\* ------------------------------------------------------------------------
\* C22
\* ------------------------------------------------------------------------
\* What the matching loop without the prescan returns from state t
RECURSIVE ScalarSearch(_, _, _)
ScalarSearch(h, x, t) ==
    IF t.pos > t.n - t.m THEN NPOS
    ELSE LET r == IF t.periodic THEN PeriodicIter(h, x, t) ELSE NonPeriodicIter(h, x, t)
         IN  IF r.ret # NoReturn THEN r.ret ELSE ScalarSearch(h, x, r.t)

\* C22: with the block prescan, two_way::search returns what the scalar
\* loop alone returns; the prescan passes only over positions whose byte at
\* offset l+1 differs from needle[l+1]; and the position handed to the
\* scalar comparison satisfies position + m <= n.
C22_PrescanEquivalent ==
    entry = "search_avx" =>
        /\ fpc = "scalar" =>
              /\ \A p \in tw.scan..(tw.pos - 1) :
                    HayByte(hay, tw.base + p + tw.l + 1) # needle[tw.l + 2]
              /\ tw.pos + tw.m <= tw.n
        /\ fpc = "done" =>
              found = FromSearch(ScalarSearch(hay, needle, [tw EXCEPT !.pos = 0, !.memory = 0]))

\* ------------------------------------------------------------------------
\* C23
\* ------------------------------------------------------------------------
\* The largest haystack offset the scalar comparison of a pass reads in
\* state t (below t.pos when it reads nothing)
LastHaystackRead(h, x, t) ==
    LET off == t.base + t.pos
        i0 == IF t.periodic THEN Max(t.l + 1, t.memory) ELSE t.l + 1
        j0 == IF t.periodic THEN t.memory ELSE 0
        i == RightScan(h, off, x, t.m, i0)
        j == LeftScan(h, off, x, t.l, j0)
    IN  IF i < t.m THEN t.pos + i
        ELSE Max(IF i0 < t.m THEN t.pos + t.m - 1 ELSE t.pos - 1,
                 IF j0 > t.l THEN t.pos - 1 ELSE t.pos + Min(j, t.l))

\* C23: during two_way::search every needle byte read has index < m and
\* every haystack byte read has index < n: the periodicity memcmp of l+1
\* bytes at needle offset per stays inside the needle, and the scalar
\* comparisons of every pass, after a prescan hit as well, stay inside the
\* haystack.
C23_ReadsInBounds ==
    (entry = "search_avx" /\ tw.m > ShortNeedleMax) =>
        /\ fpc \in {"loop", "scalar"} => ~PeriodicReadsOutside(tw.m, tw.l, tw.period)
        /\ fpc = "scalar" => LastHaystackRead(hay, needle, tw) < tw.n

\* ========================================================================
\* SOURCES INSIDE THE STRING'S OWN STORAGE (include/fl/string.hpp)
\* ========================================================================
\* The argument s.data() + off as the caller evaluates it before the call:
\* the variant that was active and, on the Heap, the block it points into.
OwnSource(m, sid, off) ==
    [heap |-> is_heap_allocated(Str(m, sid)), ptr |-> Str(m, sid).ptr, off |-> off]

\* src still points into the buffer the string uses in m
SameBuffer(m, sid, src) ==
    /\ src.heap = is_heap_allocated(Str(m, sid))
    /\ src.heap => src.ptr = Str(m, sid).ptr

\* The fault, if any, of memcpy reading len bytes through src in m: the
\* block may have been released since, and the Inline bytes may lie under
\* the pointer and capacity fields written since.
source_read_check(m, sid, src, len) ==
    IF m.fault # "none" \/ len = 0 THEN m
    ELSE IF src.heap THEN
         IF m.blocks[src.ptr].st # "held" THEN Fault(m, "read_after_release")
         ELSE mem_read_check(m, src.ptr, src.off, len)
    ELSE IF is_heap_allocated(Str(m, sid)) /\ src.off < 2 * PtrBytes
         THEN Fault(m, "read_of_overwritten_sso")
    ELSE m

\* The bytes that read finds
source_read(m, sid, src, len) ==
    IF src.heap THEN mem_read(m, src.ptr, src.off, len)
    ELSE sso_read(Str(m, sid), src.off, len)

\* What memcpy(dst, src, n) stores when dst = src + d, 0 < d < n, and it
\* copies upwards byte by byte: raw are the n bytes at src beforehand.
ForwardBytes(raw, d) == SubSeq([j \in 1..Len(raw) |-> raw[((j - 1) % d) + 1]], 1, Len(raw))

\* The outcomes of memcpy(ptr + pos, src, len): with overlapping ranges the
\* call is undefined and the library copies as memmove or upwards.
memcpy_from_source(m, sid, pos, src, len, how) ==
    LET raw == source_read(m, sid, src, len)
        d == pos - src.off
        bytes == IF SameBuffer(m, sid, src) /\ 0 < d /\ d < len /\ how = "forward"
                 THEN ForwardBytes(raw, d) ELSE raw
    IN  data_write(source_read_check(m, sid, src, len), sid, pos, bytes)

MemcpyOutcomes == {"memmove", "forward"}

\* s.append(s.data(), len): append(const char* cstr, size_type len)
append_own(m, sid, len, how) ==
    IF len = 0 THEN m
    ELSE LET src == OwnSource(m, sid, 0)
             size == Str(m, sid).size
             m1 == IF size + len > capacity(Str(m, sid)) THEN grow_to(m, sid, size + len) ELSE m
             m2 == memcpy_from_source(m1, sid, size, src, len, how)
         IN  finish(m2, sid, size + len)

\* s.insert(pos, s): insert(pos, str.data(), str.size())
insert_own(m, sid, pos, how) ==
    LET src == OwnSource(m, sid, 0)
        size == Str(m, sid).size
        len == size
    IN  IF len = 0 \/ pos > size THEN m
        ELSE LET m1 == grow_for(m, sid, size + len)
                 m2 == data_move(m1, sid, pos + len, pos, size - pos)
                 m3 == memcpy_from_source(m2, sid, pos, src, len, how)
             IN  finish(m3, sid, size + len)

\* s.replace(pos, len0, s): replace(pos, len, str._data_ptr(), str._size)
replace_own(m, sid, pos, len0, how) ==
    IF pos > Str(m, sid).size THEN m
    ELSE LET src == OwnSource(m, sid, 0)
             size == Str(m, sid).size
             clen == size
             len == Min(len0, size - pos)
             new_size == size - len + clen
             m1 == grow_for(m, sid, new_size)
             m2 == move_tail(m1, sid, pos, len, clen, size)
             m3 == memcpy_from_source(m2, sid, pos, src, clen, how)
         IN  finish(m3, sid, new_size)

AppendOwn ==
    \E sid \in StrIds, how \in MemcpyOutcomes :
      \E len \in {strs[sid].size \div 2, strs[sid].size} :
        /\ CanRun /\ Alive(sid)
        /\ LET m0 == Mach(TRUE) IN
             Done("append_own", sid, sid, len, m0, append_own(m0, sid, len, how),
                  [ref EXCEPT ![sid] = @ \o SubSeq(@, 1, len)])

InsertOwn ==
    \E sid \in StrIds, how \in MemcpyOutcomes :
      \E pos \in Positions(strs[sid].size) :
        /\ CanRun /\ Alive(sid)
        /\ LET m0 == Mach(TRUE) IN
             Done("insert_own", sid, sid, pos, m0, insert_own(m0, sid, pos, how),
                  [ref EXCEPT ![sid] = RefInsert(@, pos, @)])

ReplaceOwn ==
    \E sid \in StrIds, len \in ReplaceLens, how \in MemcpyOutcomes :
      \E pos \in Positions(strs[sid].size) :
        /\ CanRun /\ Alive(sid)
        /\ LET m0 == Mach(TRUE) IN
             Done("replace_own", sid, sid, pos, m0, replace_own(m0, sid, pos, len, how),
                  [ref EXCEPT ![sid] = RefReplace(@, pos, len, @)])

\* A run of one string fed its own bytes, between ordinary mutators
NextOwn ==
    \/ AppendOwn \/ InsertOwn \/ ReplaceOwn
    \/ AppendBytes \/ PopBack \/ Reserve \/ Erase
SpecOwn == Init /\ [][NextOwn]_vars

\* ------------------------------------------------------------------------
\* C24
\* ------------------------------------------------------------------------
OwnOps == {"append_own", "insert_own", "replace_own"}

\* C24: after s.append(s.data(), k), s.insert(pos, s) or s.replace(pos, n, s)
\* the string holds what the reference sequence holds after the same
\* operation on a snapshot of the old bytes, whether or not the operation
\* grew the buffer, and the operation read no source byte from a released
\* block nor from Inline bytes lying under the heap pointer and capacity.
C24_OwnBytes ==
    res.op \in OwnOps =>
        /\ fault = "none"
        /\ strs[res.sid].size = Len(ref[res.sid])
        /\ Content(Mach(TRUE), res.sid) = ref[res.sid]

\* ------------------------------------------------------------------------
\* C25
\* ------------------------------------------------------------------------
\* C25: the buffer of every live Heap string is a block the string holds,
\* and capacity() + 1 does not exceed the byte size that block was obtained
\* with, whichever path produced it (recycler, platform, or a user hook
\* returning exactly the bytes asked for).
C25_CapacityInsideBlock ==
    \A sid \in StrIds :
        (Alive(sid) /\ is_heap_allocated(strs[sid]) /\ fault = "none") =>
            /\ strs[sid].ptr \in BlockIds
            /\ blocks[strs[sid].ptr].st = "held"
            /\ capacity(strs[sid]) + 1 <= blocks[strs[sid].ptr].len

\* ------------------------------------------------------------------------
\* C26
\* ------------------------------------------------------------------------
\* _grow_to with the old block handed back before the new one is requested
grow_from_heap_release_first(m, sid, alloc_n) ==
    LET old_ptr == Str(m, sid).ptr
        old_alloc_n == Str(m, sid).cap + 1
        m1 == deallocate_bytes_aligned(m, old_ptr, old_alloc_n)
        m2 == allocate_bytes_aligned(m1, alloc_n)
        m3 == new_copy(m2, old_ptr, Str(m, sid).size)
        m4 == new_write(m3, Str(m, sid).size, <<0>>)
        m5 == set_ptr_new(m4, sid)
        m6 == set_capacity(m5, sid, pool_alloc_usable_capacity(alloc_n))
    IN  <<[did |-> "release", m |-> m1], [did |-> "allocate", m |-> m2],
          [did |-> "copy", m |-> m3], [did |-> "terminate", m |-> m4],
          [did |-> "set_ptr", m |-> m5], [did |-> "set_capacity", m |-> m6]>>

\* The statements of _grow_to's Heap branch in program order, each with the
\* machine it leaves
grow_from_heap_steps(m, sid, alloc_n) ==
    LET old_ptr == Str(m, sid).ptr
        old_alloc_n == Str(m, sid).cap + 1
        m1 == allocate_bytes_aligned(m, alloc_n)
        m2 == new_copy(m1, old_ptr, Str(m, sid).size)
        m3 == new_write(m2, Str(m, sid).size, <<0>>)
        m4 == deallocate_bytes_aligned(m3, old_ptr, old_alloc_n)
        m5 == set_ptr_new(m4, sid)
        m6 == set_capacity(m5, sid, pool_alloc_usable_capacity(alloc_n))
    IN  <<[did |-> "allocate", m |-> m1], [did |-> "copy", m |-> m2],
          [did |-> "terminate", m |-> m3], [did |-> "release", m |-> m4],
          [did |-> "set_ptr", m |-> m5], [did |-> "set_capacity", m |-> m6]>>

StepOf(st, did) == CHOOSE i \in 1..Len(st) : st[i].did = did
Before(m, st, i) == IF i = 1 THEN m ELSE st[i - 1].m

\* What both orders have in common: the copy reads the old bytes into the
\* new block, the terminator follows, and only then are the pointer and the
\* capacity stored; the result is what _grow_to leaves.
GrowCopies(m, sid, alloc_n, st) ==
    LET old == Str(m, sid).ptr
        new == st[StepOf(st, "allocate")].m.p
        end == st[Len(st)].m
    IN  /\ end.fault = "none"
        /\ new \in BlockIds /\ new # old
        /\ StepOf(st, "allocate") < StepOf(st, "copy")
        /\ StepOf(st, "copy") < StepOf(st, "terminate")
        /\ StepOf(st, "terminate") < StepOf(st, "set_ptr")
        /\ StepOf(st, "set_ptr") < StepOf(st, "set_capacity")
        /\ \A i \in 1..StepOf(st, "terminate") : Str(st[i].m, sid) = Str(m, sid)
        /\ Str(end, sid).ptr = new /\ end.blocks[new].st = "held"
        /\ Str(end, sid).size = Str(m, sid).size
        /\ Content(end, sid) = Content(m, sid)
        /\ data_read(end, sid, Str(m, sid).size, 1) = <<0>>
        /\ ReleasedOnce(m, end, old, Str(m, sid).cap + 1)
        /\ SameMachine(end, grow_from_heap(m, sid, alloc_n))

\* The old block goes back before the new one is requested: the string
\* never holds both.
ReleasedFirst(m, sid, st) ==
    LET old == Str(m, sid).ptr
        new == st[StepOf(st, "allocate")].m.p
    IN  /\ StepOf(st, "release") < StepOf(st, "allocate")
        /\ \A i \in 1..Len(st) :
              ~(st[i].m.blocks[old].st = "held" /\ st[i].m.blocks[new].st = "held")

\* The old block goes back after the copy and the terminator, before the
\* pointer is stored: it is held while it is read.
ReleasedAfterCopy(m, sid, st) ==
    LET old == Str(m, sid).ptr
    IN  /\ StepOf(st, "terminate") < StepOf(st, "release")
        /\ StepOf(st, "release") < StepOf(st, "set_ptr")
        /\ Before(m, st, StepOf(st, "copy")).blocks[old].st = "held"
        /\ st[StepOf(st, "copy")].m.blocks[old].st = "held"

\* Every live Heap string of the state, grown by _grow_to to hold one byte
\* more than its capacity
GrowCalls(Rule(_, _, _)) ==
    fault = "none" =>
        \A sid \in StrIds :
            Alive(sid) /\ is_heap_allocated(strs[sid]) =>
                LET m == Mach(TRUE)
                    alloc_n == calculate_new_capacity(capacity(strs[sid]) + 1) + 1
                    st == grow_from_heap_steps(m, sid, alloc_n)
                IN  GrowCopies(m, sid, alloc_n, st) /\ Rule(m, sid, st)

PassAdvances ==
    /\ (fpc = "scalar" /\ fpc' = "loop") => tw'.pos > tw.pos
    /\ (fpc = "loop" /\ fpc' = "scalar") => tw'.pos >= tw.pos

\* The comparisons of a pass run only on a candidate that fits
BodyInRange == fpc = "scalar" => tw.pos + tw.m <= tw.n

\* Leaving the loop without a match reports not-found
ExhaustedIsNotFound ==
    (fpc = "done" /\ tw.m > ShortNeedleMax /\ tw.pos + tw.m > tw.n) => found = NPOS

\* C27: in the matching loops of two_way::search, with the block prescan
\* compiled in, every pass either returns or strictly increases the
\* candidate position, the comparisons of a pass run only while candidate +
\* m <= n, and a search that leaves the loop without a match returns npos.
C27_LoopProgress ==
    [](entry = "search_avx" => BodyInRange /\ ExhaustedIsNotFound)
        /\ [][entry = "search_avx" => PassAdvances]_vars

\* ------------------------------------------------------------------------
\* C28
\* ------------------------------------------------------------------------
\* What find(sv, pos) does with a start position inside the string
FindDispatch ==
    (fpc = "find" /\ startPos <= hay.n) =>
        LET remaining == hay.n - startPos
            m == Len(needle)
            platform == SvFind(hay, startPos, remaining, needle)
        IN  /\ m = 0 => fpc' = "done" /\ found' = startPos
            /\ m = 1 => fpc' = "done" /\ found' = MemChr(hay, startPos, remaining, needle[1])
            /\ (fpc' = "search") <=> (remaining >= kTwoWayHaystackThreshold /\ m >= 2)
            /\ fpc' = "search" =>
                  tw' = [TwIdle EXCEPT !.base = startPos, !.n = remaining, !.m = m]
            /\ (m >= 2 /\ remaining < kTwoWayHaystackThreshold) =>
                  /\ fpc' = "done" /\ tw' = tw
                  /\ found' = IF platform = NPOS THEN NPOS ELSE startPos + platform

\* What two_way::search does with a needle that fits the haystack
SearchDispatch ==
    (fpc = "search" /\ entry \in {"find", "search"} /\ 0 < tw.m /\ tw.m <= tw.n) =>
        /\ (fpc' = "short") <=> (tw.m <= ShortNeedleMax)
        /\ fpc' = "short" => tw' = [tw EXCEPT !.scan = 0]
        /\ tw.m > ShortNeedleMax => fpc' = "loop" /\ tw'.l = Factorize(needle, tw.m).l

IdleTracker == [count |-> 0, type |-> "None"]

\* begin_read: a violation when a write or the moved mark is current,
\* otherwise one more active access of type Read.
begin_read(ts) ==
    IF ts.type \in {"Write", "Moved"} THEN [ok |-> FALSE, ts |-> ts]
    ELSE [ok |-> TRUE, ts |-> [count |-> ts.count + 1, type |-> "Read"]]

\* begin_write: a violation unless the state word is zero.
begin_write(ts) ==
    IF ts # IdleTracker THEN [ok |-> FALSE, ts |-> ts]
    ELSE [ok |-> TRUE, ts |-> [count |-> 1, type |-> "Write"]]

\* end_access, run by the destructor of a guard
end_access(ts) ==
    IF ts.count = 0 THEN ts
    ELSE [count |-> ts.count - 1, type |-> IF ts.count - 1 > 0 THEN ts.type ELSE "None"]

\* The guards a public member function of string takes and drops, in
\* program order: "W" _guard_write, "R" _guard_read, "E" the end of the
\* scope of the innermost guard.  Arguments are non-empty.
GuardScript(op) ==
    CASE op = "size"        -> <<"R", "E">>
      [] op = "contains"    -> <<"R", "R", "E", "E">>
      [] op = "pop_back"    -> <<"W", "E">>
      [] op = "clear"       -> <<"W", "E">>
      [] op = "append"      -> <<"W", "R", "E", "E">>
      [] op = "reserve"     -> <<"W", "R", "E", "E">>
      [] op = "insert"      -> <<"W", "R", "E", "E">>
      [] op = "push_back"   -> <<"W", "W", "R", "E", "E", "E">>
      [] op = "assign_fill" -> <<"W", "W", "E", "W", "R", "E", "E", "E">>

TrackedOps == {"size", "contains", "pop_back", "clear", "append", "reserve", "insert",
               "push_back", "assign_fill"}

OutsideCall == [op |-> "none", pc |-> 0, held |-> <<>>]
NoViolation == [by |-> 0, attempted |-> "None", state |-> IdleTracker]

\* One string with its tracker, no call in progress
InitTracker ==
    /\ FindIdle
    /\ strs = [sid \in StrIds |-> Dead]
    /\ blocks = [b \in BlockIds |-> NoBlock]
    /\ pool = [t \in Threads |-> [i \in 1..Len(POOL_CLASSES) |-> <<>>]]
    /\ hooks = NoHooks /\ fault = "none" /\ res = NoRes /\ nops = 0
    /\ ref = [sid \in StrIds |-> <<>>]
    /\ env = [oom |-> FALSE, ts |-> IdleTracker,
              thr |-> [t \in Threads |-> OutsideCall],
              violation |-> NoViolation]

Running == env.violation.by = 0

\* A thread calls a member function of the string.
TrackedCall ==
    \E t \in Threads, op \in TrackedOps :
        /\ Running /\ env.thr[t].op = "none" /\ nops < MaxCalls
        /\ env' = [env EXCEPT !.thr[t] = [op |-> op, pc |-> 1, held |-> <<>>]]
        /\ nops' = nops + 1
        /\ UNCHANGED <<strs, blocks, pool, hooks, fault, res, ref, findVars>>

\* The call reaches its next guard: begin_read or begin_write either admits
\* it or reports a violation, which aborts the process.
TrackedBegin ==
    \E t \in Threads :
        /\ Running /\ env.thr[t].op # "none"
        /\ LET c == env.thr[t]
               kind == GuardScript(c.op)[c.pc]
               r == IF kind = "R" THEN begin_read(env.ts) ELSE begin_write(env.ts)
           IN  /\ kind \in {"R", "W"}
               /\ env' = IF r.ok
                          THEN [env EXCEPT !.ts = r.ts,
                                           !.thr[t] = [c EXCEPT !.pc = @ + 1,
                                                                !.held = Append(@, kind)]]
                          ELSE [env EXCEPT !.violation =
                                   [by |-> t, attempted |-> kind, state |-> env.ts]]
        /\ UNCHANGED <<strs, blocks, pool, hooks, fault, res, ref, nops, findVars>>

\* The innermost guard of the call goes out of scope; after the last one
\* the call returns.
TrackedEnd ==
    \E t \in Threads :
        /\ Running /\ env.thr[t].op # "none"
        /\ LET c == env.thr[t]
               script == GuardScript(c.op)
           IN  /\ script[c.pc] = "E"
               /\ env' = [env EXCEPT
                            !.ts = end_access(@),
                            !.thr[t] = IF c.pc = Len(script) THEN OutsideCall
                                       ELSE [c EXCEPT !.pc = @ + 1,
                                                      !.held = SubSeq(@, 1, Len(@) - 1)]]
        /\ UNCHANGED <<strs, blocks, pool, hooks, fault, res, ref, nops, findVars>>

NextTracker == TrackedCall \/ TrackedBegin \/ TrackedEnd
SpecTracker == InitTracker /\ [][NextTracker]_vars

\* ------------------------------------------------------------------------
\* C29
\* ------------------------------------------------------------------------
\* Thread u is inside an access the tracker admitted
Accessing(u, kinds) == \E i \in 1..Len(env.thr[u].held) : env.thr[u].held[i] \in kinds

\* C29: the tracker reports a violation only when the access it refuses
\* overlaps an access of another thread and one of the two is a write; and
\* whenever no call is in progress the tracker is idle.
C29_TrackerViolations ==
    /\ ~Running =>
          \E u \in Threads \ {env.violation.by} :
              IF env.violation.attempted = "W" THEN Accessing(u, {"R", "W"})
              ELSE Accessing(u, {"W"})
    /\ (Running /\ \A t \in Threads : env.thr[t].op = "none") => env.ts = IdleTracker

\* ========================================================================
\* THREAD EXIT (include/fl/alloc_hooks.hpp, get_tls_free_lists)
\* ========================================================================
\* The thread runs of above, with threads that end.  env.ended holds the
\* threads that have ended; an ended thread makes no call.
InitThreadEnd ==
    /\ FindIdle
    /\ strs = [sid \in StrIds |-> Dead]
    /\ blocks = [b \in 1..MaxThreadBlocks |-> NoBlock]
    /\ pool = [t \in Threads |-> [i \in 1..Len(POOL_CLASSES) |-> <<>>]]
    /\ hooks = NoHooks /\ fault = "none" /\ res = NoRes
    /\ ref = [sid \in StrIds |-> <<>>] /\ nops = 0
    /\ env = [oom |-> FALSE, ended |-> {}]

ByLiveThread == res'.sid \notin env.ended

LiveAllocate == ThreadAllocate /\ ByLiveThread
LiveRelease == ThreadRelease /\ ByLiveThread
LiveConstruct == ThreadConstruct /\ ByLiveThread
LiveDestroy == ThreadDestroy /\ ByLiveThread

\* Thread t ends.  Its table is the function-local `static thread_local
\* TlsFreeLists tls{}`: a struct of counts and raw pointers without a
\* destructor, so the storage of the table goes away and the blocks whose
\* addresses it held are passed to nobody.
ThreadExit ==
    \E t \in Threads \ env.ended :
        /\ fault = "none"
        /\ pool' = [pool EXCEPT ![t] = [i \in 1..Len(POOL_CLASSES) |-> <<>>]]
        /\ env' = [env EXCEPT !.ended = @ \cup {t}]
        /\ res' = PoolOutcome("thread_exit", t, MainSize, NULL)
        /\ UNCHANGED <<strs, blocks, hooks, fault, ref, nops, findVars>>

NextThreadEnd == LiveAllocate \/ LiveRelease \/ LiveConstruct \/ LiveDestroy \/ ThreadExit
SpecThreadEnd == InitThreadEnd /\ [][NextThreadEnd]_vars

\* ------------------------------------------------------------------------
\* C30
\* ------------------------------------------------------------------------
\* C30: a block the recycler took in and has not handed to the platform
\* deallocator is parked in the table of a thread that has not ended: the
\* end of a thread hands every block of its table to the platform, so once
\* all threads have ended and all strings are destroyed no block that went
\* through the recycler is left unreleased.
C30_ThreadEndReleases ==
    /\ \A b \in DOMAIN blocks :
          blocks[b].st = "pooled" =>
              \E t \in Threads \ env.ended : \E i \in 1..Len(POOL_CLASSES) :
                  CountIn(pool[t][i], b) = 1
    /\ (env.ended = Threads /\ \A sid \in StrIds : ~Alive(sid)) =>
          \A b \in DOMAIN blocks : blocks[b].by = "recycler" => blocks[b].st \notin {"pooled"}

====
